---- MODULE Spec2Model ----
(***************************************************************************)
(* State-machine model of the IAQ monitoring server (src/server/index.js): *)
(* POST /data ingestion into the readings table, the SSE broadcaster, the  *)
(* profiles table and the advisory endpoints (/chat, /lifestyle-advice)    *)
(* with their provider fallback chain.                                     *)
(***************************************************************************)
EXTENDS Integers, Sequences, FiniteSets, TLC

(***************************************************************************)
(* Bounds of the model.                                                    *)
(***************************************************************************)
MaxReadings == 2      \* rows the readings table may hold
MaxClock    == 2      \* values the wall clock takes (1..MaxClock)
MaxProfiles == 2      \* rows the profiles table may hold

(***************************************************************************)
(* JavaScript values of a JSON body, tagged by what typeof / isFinite see. *)
(***************************************************************************)
Num(n)    == [t |-> "number", v |-> n]
Undefined == [t |-> "undefined", v |-> 0]
Null      == [t |-> "null", v |-> 0]
Str       == [t |-> "string", v |-> 0]      \* e.g. "12": a numeric string
Infinite  == [t |-> "infinity", v |-> 0]    \* typeof is "number", isFinite false
Str65     == [t |-> "string", v |-> 65]     \* the string "65"

\* typeof x === "number" && isFinite(x)
IsFiniteNumber(x) == x.t = "number"

\* Math.min, Math.max
Min(a, b) == IF a < b THEN a ELSE b
Max(a, b) == IF a > b THEN a ELSE b

VARIABLES
  now,          \* wall clock (Date.now())
  readings,     \* the readings table, in rowid order
  ingest,       \* per POST /data request: position, body, statement, result
  cbQueue,      \* completed INSERT statements whose callbacks have not run yet
  published,    \* the dataObj of every broadcast() call, in call order
  sseClients,   \* the Set of subscribed responses
  conn,         \* per SSE connection: "none", "open" or "closed"
  received,     \* per SSE connection: the events written to it, in order
  profiles,     \* the profiles table, in rowid order
  config,       \* process.env: GEMINI_API_KEY and GEMINI_MODEL
  req,          \* the advisory request being served (/chat, /lifestyle-advice)
  rd,           \* the read request being served (/emergency-check, /history, /profile)
  page          \* the dashboard page: the values it holds and the trend it derived

ingestVars == <<readings, ingest, cbQueue, published>>
sseVars    == <<sseClients, conn, received>>
advVars    == <<profiles, config, req>>
readVars   == <<rd, page>>
vars       == <<now, ingestVars, sseVars, advVars, readVars>>

\* The SSE connections and the POST /data requests in flight that are followed.
Sessions == {"s1", "s2"}
Ingests  == {"i1", "i2"}

NoStmt == [ts |-> Null, pm25 |-> Null, voc |-> Null, c2h5oh |-> Null, co |-> Null,
           predicted_iaq |-> Null, current_iaq |-> Null]
NoBody == [ts |-> Undefined, pm25 |-> Undefined, voc |-> Undefined,
           c2h5oh |-> Undefined, co |-> Undefined,
           predicted_iaq |-> Undefined, current_iaq |-> Undefined]
NoResp == [status |-> 0, ok |-> FALSE, id |-> 0]

IdleIngest == [pc |-> "idle", body |-> NoBody, stmt |-> NoStmt, err |-> FALSE,
               lastID |-> 0, resp |-> NoResp]

(***************************************************************************)
(* Request bodies the device may send.                                     *)
(***************************************************************************)
GoodBody == [ts |-> Undefined, pm25 |-> Num(12), voc |-> Num(200), c2h5oh |-> Num(50),
             co |-> Num(3), predicted_iaq |-> Num(320), current_iaq |-> Num(42)]

BadSensorVals == {Undefined, Str, Infinite}
PredVals      == {Num(320), Undefined, Infinite}
CurVals       == {Num(42), Undefined, Str}

\* Bodies with the four sensors valid: every predicted_iaq / current_iaq pair
\* with ts left to the server, and a device-supplied ts (a number, or null).
ValidSensorBodies ==
  {[GoodBody EXCEPT !.predicted_iaq = p, !.current_iaq = c] :
      p \in PredVals, c \in CurVals}
  \cup {[GoodBody EXCEPT !.ts = t] : t \in {Num(7), Null}}

\* Bodies with exactly one sensor field invalid.
BadSensorBodies ==
  {[GoodBody EXCEPT ![f] = b] :
      f \in {"pm25", "voc", "c2h5oh", "co"}, b \in BadSensorVals}

Bodies == ValidSensorBodies \cup BadSensorBodies

(***************************************************************************)
(* Outbound view of a row (adjustForFrontend).                             *)
(***************************************************************************)
DisplayOffset == 180

adjustForFrontend(row) ==
  IF IsFiniteNumber(row.predicted_iaq)
    THEN [row EXCEPT !.predicted_iaq = Num(row.predicted_iaq.v - DisplayOffset)]
    ELSE row

(***************************************************************************)
(* SSE: GET /stream, the close handler and broadcast().                    *)
(***************************************************************************)
PingEvent == [event |-> "ping", data |-> "ok"]
MessageEvent(dataObj) == [event |-> "message", data |-> dataObj]

\* Variant of Stream that adds the response to the Set without the ping.
StreamWithoutPing(s) ==
  /\ conn[s] = "none"
  /\ conn' = [conn EXCEPT ![s] = "open"]
  /\ sseClients' = sseClients \cup {s}
  /\ UNCHANGED <<now, readVars, ingestVars, received, advVars>>

\* GET /stream: write the ping, then add the response to the Set.
Stream(s) ==
  /\ conn[s] = "none"
  /\ conn' = [conn EXCEPT ![s] = "open"]
  /\ received' = [received EXCEPT ![s] = Append(@, PingEvent)]
  /\ sseClients' = sseClients \cup {s}
  /\ UNCHANGED <<now, readVars, ingestVars, advVars>>

\* Variant of the close handler that leaves the response in the Set.
CloseWithoutDelete(s) ==
  /\ conn[s] = "open"
  /\ conn' = [conn EXCEPT ![s] = "closed"]
  /\ UNCHANGED <<now, readVars, ingestVars, sseClients, received, advVars>>

\* req.on("close"): delete the response from the Set.
Close(s) ==
  /\ conn[s] = "open"
  /\ conn' = [conn EXCEPT ![s] = "closed"]
  /\ sseClients' = sseClients \ {s}
  /\ UNCHANGED <<now, readVars, ingestVars, received, advVars>>

\* Variant of broadcast in which the first write that throws ends the loop, so
\* that the clients after it are not written to.
broadcastAbortOnFailure(dataObj, failed) ==
  /\ published' = Append(published, dataObj)
  /\ received' = [s \in Sessions |->
                    IF s \in sseClients /\ failed = {}
                      THEN Append(received[s], MessageEvent(dataObj))
                      ELSE received[s]]
  /\ sseClients' = sseClients \ failed

\* broadcast(dataObj): write to every client of the Set; a client whose write
\* throws (the set `failed`) is deleted from the Set.
broadcast(dataObj, failed) ==
  /\ published' = Append(published, dataObj)
  /\ received' = [s \in Sessions |->
                    IF s \in sseClients \ failed
                      THEN Append(received[s], MessageEvent(dataObj))
                      ELSE received[s]]
  /\ sseClients' = sseClients \ failed

(***************************************************************************)
(* POST /data.                                                             *)
(***************************************************************************)
\* Variant of sensorsOk that leaves co unchecked.
sensorsOkWithoutCo(b) ==
  /\ IsFiniteNumber(b.pm25)
  /\ IsFiniteNumber(b.voc)
  /\ IsFiniteNumber(b.c2h5oh)

\* [pm25, voc, c2h5oh, co].every(x => typeof x === "number" && isFinite(x))
sensorsOk(b) ==
  /\ IsFiniteNumber(b.pm25)
  /\ IsFiniteNumber(b.voc)
  /\ IsFiniteNumber(b.c2h5oh)
  /\ IsFiniteNumber(b.co)

\* Variant of predToStore that prefers current_iaq to predicted_iaq.
predToStoreCurrentFirst(b) ==
  IF IsFiniteNumber(b.current_iaq) THEN b.current_iaq
  ELSE IF IsFiniteNumber(b.predicted_iaq) THEN b.predicted_iaq
  ELSE Null

\* The value for the NOT NULL predicted_iaq column; Null when there is none.
predToStore(b) ==
  IF IsFiniteNumber(b.predicted_iaq) THEN b.predicted_iaq
  ELSE IF IsFiniteNumber(b.current_iaq) THEN b.current_iaq
  ELSE Null

\* The current_iaq bound to the statement and put in storedRow.
currentToStore(b) ==
  IF IsFiniteNumber(b.current_iaq) THEN b.current_iaq ELSE Null

\* const { ts = now, ... } = req.body: the default applies to undefined only.
tsOf(b) == IF b.ts = Undefined THEN Num(now) ELSE b.ts

\* ts as the handler's closure holds it (the value bound to the statement).
tsOfStmt(i) == ingest[i].stmt.ts

QueuedInserts == {j \in Ingests : ingest[j].pc = "queued"}

\* x occurs in seq.
InSeq(x, seq) == \E k \in 1..Len(seq) : seq[k] = x

\* The synchronous part of the handler: validate, then prepare and run the
\* INSERT statement (its callback runs later).
DataReceiveFrom(i, B) ==
  /\ ingest[i].pc \in {"idle", "done"}
  /\ \E b \in B :
       IF ~sensorsOk(b) \/ predToStore(b) = Null
         THEN ingest' = [ingest EXCEPT ![i] =
                [IdleIngest EXCEPT !.pc = "done", !.body = b,
                                   !.resp = [status |-> 400, ok |-> FALSE, id |-> 0]]]
         ELSE /\ Len(readings) + Cardinality(QueuedInserts) < MaxReadings
              /\ ingest' = [ingest EXCEPT ![i] =
                   [IdleIngest EXCEPT !.pc = "queued", !.body = b,
                      !.stmt = [ts |-> tsOf(b), pm25 |-> b.pm25, voc |-> b.voc,
                                c2h5oh |-> b.c2h5oh, co |-> b.co,
                                predicted_iaq |-> predToStore(b),
                                current_iaq |-> currentToStore(b)]]]
  /\ UNCHANGED <<now, readVars, readings, cbQueue, published, sseVars, advVars>>

DataReceive(i) == DataReceiveFrom(i, Bodies)

\* The columns declared NOT NULL in CREATE TABLE readings.
NotNullOk(stmt) ==
  /\ stmt.ts # Null
  /\ stmt.pm25 # Null /\ stmt.voc # Null /\ stmt.c2h5oh # Null /\ stmt.co # Null
  /\ stmt.predicted_iaq # Null

\* Variant of DbInsert that numbers a row by the rows before it, so that the
\* second row gets the id of the first.
DbInsertCountsFromZero(i) ==
  /\ ingest[i].pc = "queued"
  /\ \E ioError \in BOOLEAN :
       IF ioError \/ ~NotNullOk(ingest[i].stmt)
         THEN /\ ingest' = [ingest EXCEPT ![i].pc = "completed", ![i].err = TRUE]
              /\ UNCHANGED readings
         ELSE /\ readings' = Append(readings,
                   [id |-> Max(1, Len(readings)), ts |-> ingest[i].stmt.ts,
                    pm25 |-> ingest[i].stmt.pm25, voc |-> ingest[i].stmt.voc,
                    c2h5oh |-> ingest[i].stmt.c2h5oh, co |-> ingest[i].stmt.co,
                    predicted_iaq |-> ingest[i].stmt.predicted_iaq,
                    current_iaq |-> ingest[i].stmt.current_iaq])
              /\ ingest' = [ingest EXCEPT ![i].pc = "completed",
                                          ![i].lastID = Max(1, Len(readings))]
  /\ cbQueue' = Append(cbQueue, i)
  /\ UNCHANGED <<now, readVars, published, sseVars, advVars>>

\* SQLite executes the INSERT: the row is appended and gets the next rowid, or
\* the statement fails (a constraint, or an I/O error) and nothing is written.
DbInsert(i) ==
  /\ ingest[i].pc = "queued"
  /\ \E ioError \in BOOLEAN :
       IF ioError \/ ~NotNullOk(ingest[i].stmt)
         THEN /\ ingest' = [ingest EXCEPT ![i].pc = "completed", ![i].err = TRUE]
              /\ UNCHANGED readings
         ELSE /\ readings' = Append(readings,
                   [id |-> Len(readings) + 1, ts |-> ingest[i].stmt.ts,
                    pm25 |-> ingest[i].stmt.pm25, voc |-> ingest[i].stmt.voc,
                    c2h5oh |-> ingest[i].stmt.c2h5oh, co |-> ingest[i].stmt.co,
                    predicted_iaq |-> ingest[i].stmt.predicted_iaq,
                    current_iaq |-> ingest[i].stmt.current_iaq])
              /\ ingest' = [ingest EXCEPT ![i].pc = "completed",
                                          ![i].lastID = Len(readings) + 1]
  /\ cbQueue' = Append(cbQueue, i)
  /\ UNCHANGED <<now, readVars, published, sseVars, advVars>>

\* storedRow as the callback builds it from the handler's variables.
storedRow(i) ==
  [id |-> ingest[i].lastID, ts |-> tsOfStmt(i),
   pm25 |-> ingest[i].body.pm25, voc |-> ingest[i].body.voc,
   c2h5oh |-> ingest[i].body.c2h5oh, co |-> ingest[i].body.co,
   predicted_iaq |-> predToStore(ingest[i].body),
   current_iaq |-> currentToStore(ingest[i].body)]

\* Variant of DataCallback that broadcasts before it looks at err.
DataCallbackBroadcastFirst(i) ==
  /\ InSeq(i, cbQueue)
  /\ cbQueue' = SelectSeq(cbQueue, LAMBDA j : j # i)
  /\ \E failed \in SUBSET sseClients :
        broadcast(adjustForFrontend(storedRow(i)), failed)
  /\ ingest' = [ingest EXCEPT ![i].pc = "done",
                  ![i].resp = IF ingest[i].err
                                THEN [status |-> 500, ok |-> FALSE, id |-> 0]
                                ELSE [status |-> 200, ok |-> TRUE, id |-> ingest[i].lastID]]
  /\ UNCHANGED <<now, readVars, readings, conn, advVars>>

\* The callback of stmt.run: on error answer 500; otherwise broadcast the
\* adjusted storedRow and answer with the id. Each request runs a statement of
\* its own; the database is in parallel mode after setup, so the callbacks of
\* two completed statements run in either order.
DataCallback(i) ==
  /\ InSeq(i, cbQueue)
  /\ cbQueue' = SelectSeq(cbQueue, LAMBDA j : j # i)
  /\ IF ingest[i].err
       THEN /\ ingest' = [ingest EXCEPT ![i].pc = "done",
                            ![i].resp = [status |-> 500, ok |-> FALSE, id |-> 0]]
            /\ UNCHANGED <<published, sseClients, received>>
       ELSE /\ \E failed \in SUBSET sseClients :
                 broadcast(adjustForFrontend(storedRow(i)), failed)
            /\ ingest' = [ingest EXCEPT ![i].pc = "done",
                            ![i].resp = [status |-> 200, ok |-> TRUE,
                                         id |-> ingest[i].lastID]]
  /\ UNCHANGED <<now, readVars, readings, conn, advVars>>

\* Time passes.
Tick ==
  /\ now < MaxClock
  /\ now' = now + 1
  /\ UNCHANGED <<ingestVars, sseVars, advVars, readVars>>

(***************************************************************************)
(* Number(x), Number.isFinite and >= on JavaScript values.                 *)
(***************************************************************************)
NaN == [t |-> "nan", v |-> 0]

\* Number(x): null is 0, undefined is NaN, a numeric string is its number.
ToNumber(x) ==
  IF x.t \in {"number", "string"} THEN Num(x.v)
  ELSE IF x.t = "null" THEN Num(0)
  ELSE IF x.t = "infinity" THEN Infinite
  ELSE NaN

\* x >= k and x > k for a Number x: false for NaN, true for +Infinity.
Ge(x, k) == (x.t = "number" /\ x.v >= k) \/ x.t = "infinity"
Gt(x, k) == (x.t = "number" /\ x.v > k) \/ x.t = "infinity"

\* latest?.f : undefined when latest is null.
Field(latest, f) == IF latest = Null THEN Undefined ELSE latest[f]

(***************************************************************************)
(* Profiles: the table, getProfile, buildProfileSummary and                *)
(* personalizeTextForProfile.                                              *)
(***************************************************************************)
NoProfile == [null |-> TRUE]

Member(name, relation, age, conditions, notes) ==
  [name |-> name, relation |-> relation, age |-> age,
   conditions |-> conditions, notes |-> notes]

\* Bodies a client may POST to /profile.
ProfileBodies ==
  { [owner_name |-> "Asha",
     members |-> << Member("Ravi", "Father", Str65, <<"Asthma">>, "") >>,
     preferences |-> [shareWithGemini |-> TRUE, receiveNotifications |-> TRUE]],
    [owner_name |-> "Asha",
     members |-> << Member("Mina", "Daughter", Num(30), <<>>, "") >>,
     preferences |-> [shareWithGemini |-> FALSE, receiveNotifications |-> TRUE]],
    [owner_name |-> "",
     members |-> << Member("Ravi", "Father", Num(60), <<"diabetes">>, "") >>,
     preferences |-> [shareWithGemini |-> TRUE, receiveNotifications |-> FALSE]],
    [owner_name |-> "Asha",
     members |-> << Member("Mina", "Daughter", Num(59), <<"diabetes">>, ""),
                    Member("Ravi", "Father", Num(59), <<"chronic bronchitis">>, "") >>,
     preferences |-> [shareWithGemini |-> FALSE, receiveNotifications |-> TRUE]] }

\* A body that passes Array.isArray(body.members) with a member that is null.
NullMemberBody ==
  [owner_name |-> "Asha", members |-> <<Null>>,
   preferences |-> [shareWithGemini |-> TRUE, receiveNotifications |-> TRUE]]

\* (m.conditions || []) of buildProfileSummary throws a TypeError when a
\* member m is null.
summaryThrows(profile) ==
  /\ profile # NoProfile
  /\ \E k \in 1..Len(profile.members) : profile.members[k] = Null

\* POST /profile with a body of the set P: append a new version stamped with
\* Date.now().
ProfileSaveFrom(P) ==
  /\ Len(profiles) < MaxProfiles
  /\ \E b \in P :
       profiles' = Append(profiles,
          [owner_name |-> b.owner_name, members |-> b.members,
           preferences |-> b.preferences, updated_ts |-> now])
  /\ UNCHANGED <<now, readVars, ingestVars, sseVars, config, req>>

ProfileSave == ProfileSaveFrom(ProfileBodies)

\* DELETE /profile: remove every version.
ProfileDelete ==
  /\ profiles # <<>>
  /\ profiles' = <<>>
  /\ UNCHANGED <<now, readVars, ingestVars, sseVars, config, req>>

\* SELECT * FROM profiles ORDER BY updated_ts DESC LIMIT 1: the rows the query
\* may return (SQL leaves the order among equal updated_ts open).
LatestProfileRows ==
  {k \in 1..Len(profiles) :
      \A j \in 1..Len(profiles) : profiles[j].updated_ts <= profiles[k].updated_ts}

\* What getProfile may hand to its callback: null on a read error or an empty
\* table, otherwise one of the latest rows.
getProfile(readError) ==
  IF readError \/ profiles = <<>> THEN {NoProfile}
  ELSE {profiles[k] : k \in LatestProfileRows}

\* /asthma|copd|bronch/i.test(c)
RespiratoryWords == {"Asthma", "asthma", "COPD", "copd", "chronic bronchitis"}
IsRespiratory(c) == c \in RespiratoryWords

RespiratoryClause ==
  " Note: Because someone in your home has a respiratory condition, prioritize protective steps and consult a healthcare provider if symptoms occur."
ElderClause ==
  " Also, keep elderly family members out of exposure and seek medical help for dizziness or breathing difficulty."
ElderAge == 60

hasRespiratory(profile) ==
  \E k \in 1..Len(profile.members) :
     \E c \in 1..Len(profile.members[k].conditions) :
        IsRespiratory(profile.members[k].conditions[c])

hasElder(profile) ==
  \E k \in 1..Len(profile.members) : Ge(ToNumber(profile.members[k].age), ElderAge)

\* Variant of personalizeTextForProfile with age > 60 for the elderly clause.
personalizeTextForProfileOver60(text, profile) ==
  IF profile = NoProfile THEN text
  ELSE (text \o (IF hasRespiratory(profile) THEN <<RespiratoryClause>> ELSE <<>>))
            \o (IF \E k \in 1..Len(profile.members) :
                      Gt(ToNumber(profile.members[k].age), ElderAge)
                  THEN <<ElderClause>> ELSE <<>>)

\* Texts are sequences of sentences; text += clause appends one.
personalizeTextForProfile(text, profile) ==
  IF profile = NoProfile THEN text
  ELSE (text \o (IF hasRespiratory(profile) THEN <<RespiratoryClause>> ELSE <<>>))
            \o (IF hasElder(profile) THEN <<ElderClause>> ELSE <<>>)

\* Variant of buildProfileSummary that puts each member's notes in the sentence.
buildProfileSummaryWithNotes(profile) ==
  IF profile = NoProfile THEN <<>>
  ELSE (IF profile.owner_name # "" THEN << <<"Household owner", profile.owner_name>> >> ELSE <<>>)
       \o (IF Len(profile.members) > 0
             THEN << <<"Members",
                       [k \in 1..Len(profile.members) |->
                          [relation |-> profile.members[k].relation,
                           name |-> profile.members[k].name,
                           age |-> profile.members[k].age,
                           conditions |-> profile.members[k].conditions,
                           notes |-> profile.members[k].notes]]>> >>
             ELSE <<>>)
       \o (IF profile.preferences.receiveNotifications = FALSE
             THEN << <<"Notifications", "OFF">> >> ELSE <<>>)

\* The parts of the summary sentence, in order ("" is the empty sequence).
buildProfileSummary(profile) ==
  IF profile = NoProfile THEN <<>>
  ELSE (IF profile.owner_name # "" THEN << <<"Household owner", profile.owner_name>> >> ELSE <<>>)
       \o (IF Len(profile.members) > 0
             THEN << <<"Members",
                       [k \in 1..Len(profile.members) |->
                          [relation |-> profile.members[k].relation,
                           name |-> profile.members[k].name,
                           age |-> profile.members[k].age,
                           conditions |-> profile.members[k].conditions]]>> >>
             ELSE <<>>)
       \o (IF profile.preferences.receiveNotifications = FALSE
             THEN << <<"Notifications", "OFF">> >> ELSE <<>>)

(***************************************************************************)
(* The local rule engine: analyzeLifestyleContext, getResearchBasedAdvice. *)
(***************************************************************************)
NoCategories == [iaq |-> "undefined", pm25 |-> "undefined", voc |-> "undefined",
                 etoh |-> "undefined", co |-> "undefined"]

\* ctx.categories; every field is undefined when latest is null.
analyzeLifestyleContext(latest) ==
  IF latest = Null THEN NoCategories
  ELSE LET pm   == ToNumber(latest.pm25)
           voc  == ToNumber(latest.voc)
           etoh == ToNumber(latest.c2h5oh)
           co   == ToNumber(latest.co)
           iaq  == ToNumber(latest.predicted_iaq)
       IN [iaq  |-> IF Ge(iaq, 300) THEN "hazardous"
                    ELSE IF Ge(iaq, 200) THEN "very-unhealthy"
                    ELSE IF Ge(iaq, 150) THEN "unhealthy"
                    ELSE IF Ge(iaq, 100) THEN "usg"
                    ELSE IF Ge(iaq, 50) THEN "moderate" ELSE "good",
           pm25 |-> IF Gt(pm, 100) THEN "high" ELSE IF Gt(pm, 50) THEN "elevated" ELSE "ok",
           voc  |-> IF Gt(voc, 600) THEN "high" ELSE IF Gt(voc, 300) THEN "elevated" ELSE "ok",
           etoh |-> IF Gt(etoh, 500) THEN "high" ELSE IF Gt(etoh, 200) THEN "elevated" ELSE "ok",
           co   |-> IF Gt(co, 20) THEN "high" ELSE IF Gt(co, 9) THEN "elevated" ELSE "ok"]

PrimaryEmergency ==
  "Emergency: Move to fresh air if feeling unwell. Increase ventilation immediately (open windows, use exhaust fans). Avoid sources like cooking or solvents."
PrimaryVeryUnhealthy ==
  "Air quality is very unhealthy. Ventilate now, pause activities that emit fumes, and consider wearing a well-fitted mask while ventilating."
PrimaryUnhealthy ==
  "Air quality is unhealthy. Open windows, run kitchen/bath exhaust, and reduce indoor emission sources for the next hour."
PrimarySensitive ==
  "Air quality may affect sensitive individuals. Ventilate and avoid strong cleaners or aerosols for a while."
PrimaryAcceptable ==
  "Air quality looks acceptable. Keep light ventilation and monitor for changes."
PrimaryDefault == "Maintain light ventilation and monitor."
TipPm25 == "Reduce dust and cooking smoke; use exhaust hoods during cooking."
TipVoc  == "Minimize VOC sources (paints, cleaners, aerosols); ventilate during and after use."
TipCo   == "Ensure no combustion sources indoors; ventilate and step outside if headaches or dizziness occur."

\* items.slice(0, 3)
Slice3(items) == SubSeq(items, 1, IF Len(items) < 3 THEN Len(items) ELSE 3)

\* Variant of getResearchBasedAdvice with strict comparisons at the tiers.
getResearchBasedAdviceStrict(latest, categories) ==
  LET iaq == ToNumber(Field(latest, "predicted_iaq"))
      lines == IF iaq.t # "number" THEN <<>>
               ELSE IF iaq.v > 300 THEN <<PrimaryEmergency>>
               ELSE IF iaq.v > 200 THEN <<PrimaryVeryUnhealthy>>
               ELSE IF iaq.v > 150 THEN <<PrimaryUnhealthy>>
               ELSE IF iaq.v > 100 THEN <<PrimarySensitive>>
               ELSE <<PrimaryAcceptable>>
      items == (IF categories.pm25 = "high" THEN <<TipPm25>> ELSE <<>>)
               \o (IF categories.voc # "ok" THEN <<TipVoc>> ELSE <<>>)
               \o (IF categories.co # "ok" THEN <<TipCo>> ELSE <<>>)
  IN [primary |-> IF lines # <<>> THEN lines[1] ELSE PrimaryDefault,
      tips |-> Slice3(items)]

getResearchBasedAdvice(latest, categories) ==
  LET iaq == ToNumber(Field(latest, "predicted_iaq"))
      lines == IF iaq.t # "number" THEN <<>>
               ELSE IF iaq.v >= 300 THEN <<PrimaryEmergency>>
               ELSE IF iaq.v >= 200 THEN <<PrimaryVeryUnhealthy>>
               ELSE IF iaq.v >= 150 THEN <<PrimaryUnhealthy>>
               ELSE IF iaq.v >= 100 THEN <<PrimarySensitive>>
               ELSE <<PrimaryAcceptable>>
      items == (IF categories.pm25 = "high" THEN <<TipPm25>> ELSE <<>>)
               \o (IF categories.voc # "ok" THEN <<TipVoc>> ELSE <<>>)
               \o (IF categories.co # "ok" THEN <<TipCo>> ELSE <<>>)
  IN [primary |-> IF lines # <<>> THEN lines[1] ELSE PrimaryDefault,
      tips |-> Slice3(items)]

(***************************************************************************)
(* The external provider: candidate models and the responses it may give.  *)
(***************************************************************************)
FallbackModels == <<"gemini-2.5-flash", "gemini-2.0-flash", "gemini-1.5-flash-latest">>

\* Variant of Dedupe that keeps the list as it is.
DedupeNone(list) == list

\* Array.from(new Set(list)): keep the first occurrence of each element.
Dedupe(list) ==
  LET keep == {k \in 1..Len(list) : \A j \in 1..(k - 1) : list[j] # list[k]}
      F[k \in 0..Len(list)] ==
        IF k = 0 THEN <<>>
        ELSE IF k \in keep THEN Append(F[k - 1], list[k]) ELSE F[k - 1]
  IN F[Len(list)]

modelsToTry == Dedupe(<<config.GEMINI_MODEL>> \o FallbackModels)

\* One provider call's result. thrown: doFetch or resp.json() rejected;
\* status: the HTTP status (0 when there was no response); error: the class of
\* data.error.message ("none" when the payload has no error); blocked: a block
\* or finish reason containing SAFETY; text: the parts' texts concatenated.
Response(thrown, status, error, blocked, text) ==
  [thrown |-> thrown, status |-> status, error |-> error, blocked |-> blocked,
   text |-> text]

NoResponse == Response(FALSE, 0, "none", FALSE, <<>>)
GeminiText == "Open a window for ten minutes."
Blank      == " "

ProviderResponses ==
  { Response(TRUE, 0, "none", FALSE, <<>>),            \* network failure
    Response(TRUE, 401, "none", FALSE, <<>>),          \* body is not JSON
    Response(FALSE, 503, "none", FALSE, <<>>),
    Response(FALSE, 404, "none", FALSE, <<>>),
    Response(FALSE, 429, "none", FALSE, <<>>),
    Response(FALSE, 401, "other", FALSE, <<>>),
    Response(FALSE, 401, "retryable", FALSE, <<>>),
    Response(FALSE, 200, "retryable", FALSE, <<>>),
    Response(FALSE, 200, "other", FALSE, <<>>),
    Response(FALSE, 200, "none", TRUE, <<>>),
    Response(FALSE, 200, "none", TRUE, <<GeminiText>>),
    Response(FALSE, 200, "none", FALSE, <<>>),
    Response(FALSE, 200, "none", FALSE, <<Blank>>),
    Response(FALSE, 200, "none", FALSE, <<GeminiText>>) }

\* resp.ok
HttpOk(r) == r.status = 200

\* data?.error?.message || `Upstream error (status ${resp.status})`
MessageOf(r) ==
  IF r.error = "retryable" THEN "The model is overloaded"
  ELSE IF r.error = "other" THEN "API key not valid"
  ELSE "Upstream error"

\* /overloaded|not found|unsupported|unavailable|unrecognized|quota|rate limit/i
MatchesRetryPattern(message) == message = "The model is overloaded"

\* Variant of retryable without status 429.
retryableWithout429(r) ==
  MatchesRetryPattern(MessageOf(r)) \/ r.status = 404 \/ r.status = 503

\* Variant of retryable that continues after every error response.
retryableAlways(r) == TRUE

\* The test that continues the loop after an error response.
retryable(r) ==
  MatchesRetryPattern(MessageOf(r)) \/ r.status = 404 \/ r.status = 429 \/ r.status = 503

\* answer.trim(): empty when the text holds white space only.
Trim(text) == SelectSeq(text, LAMBDA part : part # Blank)

\* What /chat does with one response: "next", "abort", "blocked" or "accept".
chatOutcome(r) ==
  IF r.thrown THEN "next"
  ELSE IF ~HttpOk(r) \/ r.error # "none"
         THEN IF retryable(r) THEN "next" ELSE "abort"
  ELSE IF r.blocked THEN "blocked"
  ELSE IF Trim(r.text) = <<>> THEN "next"
  ELSE "accept"

\* What GET and POST /lifestyle-advice do with one response.
adviceOutcome(r) ==
  IF r.thrown THEN "next"
  ELSE IF ~HttpOk(r) \/ r.error # "none"
         THEN IF retryable(r) THEN "next" ELSE "abort"
  ELSE IF Trim(r.text) = <<>> THEN "next"
  ELSE "accept"

\* lastError as the loop records it for a response that is not accepted.
errorOf(mode, r) ==
  IF r.thrown THEN "fetch failed"
  ELSE IF ~HttpOk(r) \/ r.error # "none" THEN MessageOf(r)
  ELSE IF mode = "chat" THEN "Empty response from model" ELSE "Empty response"

(***************************************************************************)
(* Reads of the readings table.                                            *)
(***************************************************************************)
\* ORDER BY ts DESC, id DESC: a comes before b.
Newer(a, b) == a.ts.v > b.ts.v \/ (a.ts.v = b.ts.v /\ a.id > b.id)

\* The rows in ORDER BY ts DESC, id DESC order.
OrderDesc(rows) ==
  LET n == Len(rows)
      rank(k) == 1 + Cardinality({j \in 1..n : Newer(rows[j], rows[k])})
  IN [p \in 1..n |-> rows[CHOOSE k \in 1..n : rank(k) = p]]

\* ... LIMIT n
Limit(rows, n) == SubSeq(rows, 1, IF Len(rows) < n THEN Len(rows) ELSE n)

RecentLimit == 20

(***************************************************************************)
(* The advisory endpoints: POST /chat, GET and POST /lifestyle-advice.     *)
(***************************************************************************)
ChatDisclaimer ==
  "This is educational guidance, not medical advice. If symptoms occur, seek professional care."
AdviceDisclaimer == " This is educational guidance, not medical advice."
FallbackNote == "(Temporary fallback because AI model was unavailable)"

AdvResp(status, ok, text, source, usedGemini, profileSummary, error) ==
  [status |-> status, ok |-> ok, text |-> text, source |-> source,
   usedGemini |-> usedGemini, profileSummary |-> profileSummary, error |-> error]

NoAdvResp == AdvResp(0, FALSE, <<>>, "", FALSE, <<>>, "")

\* The `trend` function inside the /chat handler, applied to the Numbers of a
\* series (in thousandths, as the series of deriveTrend below). With NaN or
\* Infinity at an end of the series every comparison but the last is false:
\* delta > 0 holds only for a finite first and an infinite last value.
ChatTrendMinCount == 4
ChatTail == 16
chatTrend(values) ==
  IF Len(values) < ChatTrendMinCount THEN "insufficient"
  ELSE LET first == values[1]
           last  == values[Len(values)]
       IN IF first.t = "number" /\ last.t = "number"
            THEN LET delta == last.v - first.v
                     mag   == IF delta < 0 THEN 0 - delta ELSE delta
                     base  == Max(1000, IF first.v < 0 THEN 0 - first.v ELSE first.v)
                 IN IF mag * 100 < 1000 THEN "steady"
                    ELSE IF mag * 100 < 5 * base
                           THEN (IF delta > 0 THEN "slightly rising" ELSE "slightly falling")
                    ELSE (IF delta > 0 THEN "rising" ELSE "falling")
          ELSE IF first.t = "number" /\ last.t = "infinity" THEN "rising"
          ELSE "falling"

\* tail = recentData.slice(-16); trend(tail.map((r) => Number(r.f))) for the
\* five series of the trend summary.
chatTrendSummary(recentData) ==
  LET tail == SubSeq(recentData, Max(1, Len(recentData) - ChatTail + 1), Len(recentData))
      of(f) == chatTrend([k \in 1..Len(tail) |-> ToNumber(tail[k][f])])
  IN [pm25 |-> of("pm25"), voc |-> of("voc"), c2h5oh |-> of("c2h5oh"),
      co |-> of("co"), predicted_iaq |-> of("predicted_iaq")]

NoTrendSummary ==
  [pm25 |-> "", voc |-> "", c2h5oh |-> "", co |-> "", predicted_iaq |-> ""]

IdleReq ==
  [pc |-> "idle", mode |-> "", question |-> "", latest |-> Null, recent |-> <<>>,
   trendSummary |-> NoTrendSummary, categories |-> NoCategories, profile |-> NoProfile, prompt |-> <<>>,
   tried |-> <<>>, last |-> NoResponse, lastError |-> "", resp |-> NoAdvResp]

\* A row as a viewer holds it and sends it back in a request body.
ViewRow(pred) ==
  [id |-> 1, ts |-> Num(1), pm25 |-> Num(12), voc |-> Num(200), c2h5oh |-> Num(50),
   co |-> Num(3), predicted_iaq |-> Num(pred), current_iaq |-> Num(42)]

\* {latest, recent} pairs a client may send.
ClientViews ==
  { [latest |-> Null, recent |-> <<>>],
    [latest |-> ViewRow(320), recent |-> <<ViewRow(320)>>] }

Questions == {"", "What actions should I take right now?"}

\* Variant of shareWithGemini that looks at the API key only.
shareWithGeminiKeyOnly(profile) ==
  /\ profile # NoProfile
  /\ config.GEMINI_API_KEY # ""

\* !!(profile?.preferences?.shareWithGemini && GEMINI_API_KEY)
shareWithGemini(profile) ==
  /\ profile # NoProfile
  /\ profile.preferences.shareWithGemini
  /\ config.GEMINI_API_KEY # ""

\* The answer of /chat when nothing is shared, before the disclaimer.
chatLocalAnswer(latest, profile) ==
  LET categories == analyzeLifestyleContext(latest)
      adviceObj  == getResearchBasedAdvice(latest, categories)
      base == <<"Here's what I see.">>
              \o (IF categories.iaq # "undefined"
                    THEN <<"Projected IAQ is", categories.iaq>> ELSE <<>>)
              \o <<adviceObj.primary>>
              \o (IF adviceObj.tips # <<>> THEN <<"Other tips:">> \o adviceObj.tips ELSE <<>>)
  IN personalizeTextForProfile(base, profile)

\* res.json of /chat when nothing is shared.
chatLocalResponse(latest, profile) ==
  AdvResp(200, TRUE, Append(chatLocalAnswer(latest, profile), ChatDisclaimer),
          "local", FALSE, buildProfileSummary(profile), "")

\* Variant of chatFallbackResponse that surfaces lastError as a 502.
chatFallbackResponseError(latest, profile, lastError) ==
  [status |-> 502, ok |-> FALSE, text |-> <<>>, source |-> "", usedGemini |-> FALSE,
   profileSummary |-> <<>>, error |-> lastError]

\* res.json of /chat after every candidate model failed.
chatFallbackResponse(latest, profile, lastError) ==
  LET adviceObj == getResearchBasedAdvice(latest, analyzeLifestyleContext(latest))
      answer == personalizeTextForProfile(<<adviceObj.primary>>, profile)
  IN AdvResp(200, TRUE, Append(answer, FallbackNote), "local", FALSE,
             buildProfileSummary(profile), "")

\* res.json of /chat when a candidate's text is accepted.
chatAcceptedResponse(answer, profile) ==
  AdvResp(200, TRUE, answer, "gemini", TRUE, buildProfileSummary(profile), "")

\* res.json of /chat when a response carries a SAFETY block or finish reason.
chatBlockedResponse ==
  AdvResp(200, FALSE, <<>>, "", FALSE, <<>>, "Response blocked by safety filter")

\* res.status(502).json of the three endpoints.
abortResponse(message) == AdvResp(502, FALSE, <<>>, "", FALSE, <<>>, message)

\* res.json of /lifestyle-advice from the rule engine (sharing off, or after
\* every candidate failed).
adviceLocalResponse(latest, categories, profile, lastError) ==
  LET adviceObj == getResearchBasedAdvice(latest, categories)
      finalText == personalizeTextForProfile(<<adviceObj.primary>>, profile)
  IN AdvResp(200, TRUE, Append(finalText, AdviceDisclaimer), "local", FALSE,
             buildProfileSummary(profile), "")

\* res.json of /lifestyle-advice when a candidate's text is accepted.
adviceAcceptedResponse(text, profile) ==
  AdvResp(200, TRUE, text, "gemini", TRUE, buildProfileSummary(profile), "")

\* The prompt of /chat: the question, the context and, when it is not empty,
\* the profile summary.
chatPrompt(question, latest, recent, profile) ==
  [question |-> question, latest |-> latest, recent |-> recent,
   trendSummary |-> chatTrendSummary(recent),
   profileSummary |-> buildProfileSummary(profile)]

\* The prompt of /lifestyle-advice: latest goes out adjusted.
advicePrompt(latest, recent, categories, profile) ==
  [question |-> "", latest |-> IF latest = Null THEN Null ELSE adjustForFrontend(latest),
   recent |-> recent, trendSummary |-> categories, profileSummary |-> buildProfileSummary(profile)]

\* POST /chat up to getProfile, with a body of the set V: a missing question
\* is answered 400.
ChatStartFrom(V) ==
  /\ req.pc \in {"idle", "done"}
  /\ \E question \in Questions, view \in V :
       IF question = ""
         THEN req' = [IdleReq EXCEPT !.pc = "done", !.mode = "chat",
                        !.resp = AdvResp(400, FALSE, <<>>, "", FALSE, <<>>, "Missing question")]
         ELSE req' = [IdleReq EXCEPT !.pc = "profile", !.mode = "chat",
                        !.question = question, !.latest = view.latest,
                        !.recent = view.recent,
                        !.trendSummary = chatTrendSummary(view.recent)]
  /\ UNCHANGED <<now, readVars, ingestVars, sseVars, profiles, config>>

ChatStart == ChatStartFrom(ClientViews)

\* POST /lifestyle-advice up to getProfile, with a body of the set V.
AdvicePostStartFrom(V) ==
  /\ req.pc \in {"idle", "done"}
  /\ \E view \in V :
       req' = [IdleReq EXCEPT !.pc = "profile", !.mode = "advicePost",
                 !.latest = view.latest, !.recent = view.recent,
                 !.categories = analyzeLifestyleContext(view.latest)]
  /\ UNCHANGED <<now, readVars, ingestVars, sseVars, profiles, config>>

AdvicePostStart == AdvicePostStartFrom(ClientViews)

\* GET /lifestyle-advice: the handler issues the first SELECT.
AdviceGetStart ==
  /\ req.pc \in {"idle", "done"}
  /\ req' = [IdleReq EXCEPT !.pc = "latest", !.mode = "adviceGet"]
  /\ UNCHANGED <<now, readVars, ingestVars, sseVars, profiles, config>>

\* Callback of SELECT ... LIMIT 1: 500 "no data" on an error or an empty table.
AdviceGetLatest ==
  /\ req.pc = "latest"
  /\ \E err \in BOOLEAN :
       IF err \/ readings = <<>>
         THEN req' = [req EXCEPT !.pc = "done",
                        !.resp = AdvResp(500, FALSE, <<>>, "", FALSE, <<>>, "no data")]
         ELSE req' = [req EXCEPT !.pc = "recent", !.latest = OrderDesc(readings)[1]]
  /\ UNCHANGED <<now, readVars, ingestVars, sseVars, profiles, config>>

\* Callback of SELECT ... LIMIT 20: build the context, then getProfile.
AdviceGetRecent ==
  /\ req.pc = "recent"
  /\ \E err2 \in BOOLEAN :
       req' = [req EXCEPT !.pc = "profile",
                 !.recent = IF err2 THEN <<>> ELSE Limit(OrderDesc(readings), RecentLimit),
                 !.categories = analyzeLifestyleContext(req.latest)]
  /\ UNCHANGED <<now, readVars, ingestVars, sseVars, profiles, config>>

\* Callback of getProfile in /chat: answer locally, or send the prompt to the
\* first candidate model. The callback is an async function that nobody awaits:
\* when buildProfileSummary throws, its promise rejects and nothing is sent.
ChatProfile ==
  /\ req.pc = "profile" /\ req.mode = "chat"
  /\ \E readError \in BOOLEAN : \E profile \in getProfile(readError) :
       IF summaryThrows(profile)
         THEN req' = [req EXCEPT !.pc = "rejected", !.profile = profile]
       ELSE IF ~shareWithGemini(profile)
         THEN req' = [req EXCEPT !.pc = "done", !.profile = profile,
                        !.resp = chatLocalResponse(req.latest, profile)]
         ELSE req' = [req EXCEPT !.pc = "await", !.profile = profile,
                        !.prompt = <<chatPrompt(req.question, req.latest, req.recent, profile)>>,
                        !.tried = <<modelsToTry[1]>>]
  /\ UNCHANGED <<now, readVars, ingestVars, sseVars, profiles, config>>

\* Callback of getProfile in GET and POST /lifestyle-advice (async as well).
AdviceProfile ==
  /\ req.pc = "profile" /\ req.mode \in {"adviceGet", "advicePost"}
  /\ \E readError \in BOOLEAN : \E profile \in getProfile(readError) :
       IF summaryThrows(profile)
         THEN req' = [req EXCEPT !.pc = "rejected", !.profile = profile]
       ELSE IF ~shareWithGemini(profile)
         THEN req' = [req EXCEPT !.pc = "done", !.profile = profile,
                        !.resp = adviceLocalResponse(req.latest, req.categories, profile, "")]
         ELSE req' = [req EXCEPT !.pc = "await", !.profile = profile,
                        !.prompt = <<advicePrompt(req.latest, req.recent, req.categories, profile)>>,
                        !.tried = <<modelsToTry[1]>>]
  /\ UNCHANGED <<now, readVars, ingestVars, sseVars, profiles, config>>

\* The request goes on to the next candidate, or to the rule engine when the
\* list is exhausted.
NextCandidate(r, exhausted) ==
  IF Len(req.tried) < Len(modelsToTry)
    THEN [req EXCEPT !.last = r, !.lastError = errorOf(req.mode, r),
                     !.tried = Append(@, modelsToTry[Len(req.tried) + 1])]
    ELSE [req EXCEPT !.pc = "done", !.last = r, !.lastError = errorOf(req.mode, r),
                     !.resp = exhausted]

\* One provider call of /chat returns (or throws).
ChatReturn ==
  /\ req.pc = "await" /\ req.mode = "chat"
  /\ \E r \in ProviderResponses :
       LET outcome == chatOutcome(r) IN
       req' = IF outcome = "next"
                THEN NextCandidate(r, chatFallbackResponse(req.latest, req.profile,
                                                           errorOf(req.mode, r)))
              ELSE IF outcome = "abort"
                THEN [req EXCEPT !.pc = "done", !.last = r, !.lastError = MessageOf(r),
                                 !.resp = abortResponse(MessageOf(r))]
              ELSE IF outcome = "blocked"
                THEN [req EXCEPT !.pc = "done", !.last = r, !.resp = chatBlockedResponse]
              ELSE [req EXCEPT !.pc = "done", !.last = r,
                               !.resp = chatAcceptedResponse(r.text, req.profile)]
  /\ UNCHANGED <<now, readVars, ingestVars, sseVars, profiles, config>>

\* One provider call of GET or POST /lifestyle-advice returns (or throws).
AdviceReturn ==
  /\ req.pc = "await" /\ req.mode \in {"adviceGet", "advicePost"}
  /\ \E r \in ProviderResponses :
       LET outcome == adviceOutcome(r) IN
       req' = IF outcome = "next"
                THEN NextCandidate(r, adviceLocalResponse(req.latest, req.categories,
                                         req.profile, errorOf(req.mode, r)))
              ELSE IF outcome = "abort"
                THEN [req EXCEPT !.pc = "done", !.last = r, !.lastError = MessageOf(r),
                                 !.resp = abortResponse(MessageOf(r))]
              ELSE [req EXCEPT !.pc = "done", !.last = r,
                               !.resp = adviceAcceptedResponse(r.text, req.profile)]
  /\ UNCHANGED <<now, readVars, ingestVars, sseVars, profiles, config>>

(***************************************************************************)
(* The read endpoints and the dashboard page.                              *)
(***************************************************************************)
\* A query string parameter: absent, or its text as a sequence of characters.
NoQuery == [present |-> FALSE, text |-> <<>>]
Query(text) == [present |-> TRUE, text |-> text]

ReadResp(status, ok, emergency, message, data, profile) ==
  [status |-> status, ok |-> ok, emergency |-> emergency, message |-> message,
   data |-> data, profile |-> profile]
NoReadResp == ReadResp(0, FALSE, FALSE, <<>>, <<>>, NoProfile)

IdleRd == [pc |-> "idle", kind |-> "", query |-> NoQuery, limit |-> 0, err |-> FALSE,
           latest |-> Null, resp |-> NoReadResp]
IdlePage == [pc |-> "idle", values |-> <<>>, trend |-> ""]

\* Bodies whose predictions lie around the emergency threshold, stamped by the
\* server (ts absent) or by the device with an older or a newer ts.
EmergencyBodies ==
  { [GoodBody EXCEPT !.predicted_iaq = Num(300)],
    [GoodBody EXCEPT !.predicted_iaq = Num(299)],
    [GoodBody EXCEPT !.predicted_iaq = Num(320), !.ts = Num(0)],
    [GoodBody EXCEPT !.predicted_iaq = Num(299), !.ts = Num(2)] }

EmergencyMessage ==
  "Predicted IAQ is hazardous. Move to fresh air, ventilate strongly, and stop emission sources."
NoEmergencyMessage == "No emergency detected."
EmergencyLevel == 300

\* Variant of emergencyOf with a strict comparison.
emergencyOfOver300(latest) ==
  LET pred == ToNumber(latest.predicted_iaq)
  IN pred.t = "number" /\ pred.v > EmergencyLevel

\* Number.isFinite(pred) && pred >= 300, pred = Number(latest.predicted_iaq)
emergencyOf(latest) ==
  LET pred == ToNumber(latest.predicted_iaq)
  IN pred.t = "number" /\ pred.v >= EmergencyLevel

\* GET /emergency-check: the handler issues the SELECT of the latest row.
EmergencyStart ==
  /\ rd.pc \in {"idle", "done"}
  /\ rd' = [IdleRd EXCEPT !.pc = "latest", !.kind = "emergency"]
  /\ UNCHANGED <<now, ingestVars, sseVars, advVars, page>>

\* Callback of the SELECT: an error or no row is answered emergency: false.
EmergencyLatest ==
  /\ rd.pc = "latest" /\ rd.kind = "emergency"
  /\ \E err \in BOOLEAN :
       IF err \/ readings = <<>>
         THEN rd' = [rd EXCEPT !.pc = "done", !.err = err,
                       !.resp = ReadResp(200, TRUE, FALSE, <<>>, <<>>, NoProfile)]
         ELSE rd' = [rd EXCEPT !.pc = "profile", !.latest = OrderDesc(readings)[1]]
  /\ UNCHANGED <<now, ingestVars, sseVars, advVars, page>>

\* Callback of getProfile: decide on the row read before, personalize the
\* message of an emergency and answer.
EmergencyProfile ==
  /\ rd.pc = "profile" /\ rd.kind = "emergency"
  /\ \E readError \in BOOLEAN : \E profile \in getProfile(readError) :
       LET emergency == emergencyOf(rd.latest)
           message == IF emergency
                        THEN personalizeTextForProfile(<<EmergencyMessage>>, profile)
                        ELSE <<NoEmergencyMessage>>
       IN rd' = [rd EXCEPT !.pc = "done",
                   !.resp = ReadResp(200, TRUE, emergency, message, <<>>, NoProfile)]
  /\ UNCHANGED <<now, ingestVars, sseVars, advVars, page>>

\* GET /profile: the handler calls getProfile.
ProfileReadStart ==
  /\ rd.pc \in {"idle", "done"}
  /\ rd' = [IdleRd EXCEPT !.pc = "read", !.kind = "profile"]
  /\ UNCHANGED <<now, ingestVars, sseVars, advVars, page>>

\* Callback of getProfile: answer ok with the profile, or with null.
ProfileRead ==
  /\ rd.pc = "read" /\ rd.kind = "profile"
  /\ \E readError \in BOOLEAN : \E profile \in getProfile(readError) :
       rd' = [rd EXCEPT !.pc = "done", !.err = readError,
                !.resp = ReadResp(200, TRUE, FALSE, <<>>, <<>>, profile)]
  /\ UNCHANGED <<now, ingestVars, sseVars, advVars, page>>

(***************************************************************************)
(* GET /history: parseInt, the clamp of the limit and the query.           *)
(***************************************************************************)
Digits == <<"0", "1", "2", "3", "4", "5", "6", "7", "8", "9">>
IsDigit(c) == \E d \in 1..10 : Digits[d] = c
DigitValue(c) == (CHOOSE d \in 1..10 : Digits[d] = c) - 1

\* parseInt(text, 10): an optional sign, then the leading decimal digits; NaN
\* when there is none.
parseInt(text) ==
  LET signed == text # <<>> /\ text[1] \in {"-", "+"}
      body   == IF signed THEN Tail(text) ELSE text
      count  == CHOOSE n \in 0..Len(body) :
                   /\ \A k \in 1..n : IsDigit(body[k])
                   /\ n < Len(body) => ~IsDigit(body[n + 1])
      value[k \in 0..count] ==
        IF k = 0 THEN 0 ELSE value[k - 1] * 10 + DigitValue(body[k])
  IN IF count = 0 THEN NaN
     ELSE Num(IF signed /\ text[1] = "-" THEN 0 - value[count] ELSE value[count])

DefaultLimitText == <<"5", "0", "0">>
DefaultLimit == 500
MinLimit == 1
MaxLimit == 5000

\* Variant of historyLimit without the lower clamp.
historyLimitNoFloor(query) ==
  LET n == parseInt(IF query.present /\ query.text # <<>> THEN query.text
                    ELSE DefaultLimitText)
  IN IF n.t = "number" THEN Min(n.v, MaxLimit) ELSE DefaultLimit

\* n = parseInt(req.query.limit || "500", 10);
\* limit = Number.isFinite(n) ? Math.min(Math.max(n, 1), 5000) : 500
historyLimit(query) ==
  LET n == parseInt(IF query.present /\ query.text # <<>> THEN query.text
                    ELSE DefaultLimitText)
  IN IF n.t = "number" THEN Min(Max(n.v, MinLimit), MaxLimit) ELSE DefaultLimit

\* rows.reverse()
Reverse(rows) == [k \in 1..Len(rows) |-> rows[Len(rows) + 1 - k]]

\* Values of ?limit= a client may send.
LimitQueries ==
  { NoQuery, Query(<<>>), Query(<<"a", "b", "c">>), Query(<<"2", "x">>),
    Query(<<"0">>), Query(<<"-", "3">>), Query(<<"1">>), Query(<<"2">>),
    Query(<<"5", "0", "0", "0">>), Query(<<"5", "0", "0", "1">>),
    Query(<<"1", "0", "0", "0", "0">>) }

\* Bodies stamped by the server, or by the device with an older or newer ts.
HistoryBodies == {[GoodBody EXCEPT !.ts = t] : t \in {Undefined, Num(0), Num(2)}}

\* GET /history: compute the limit and issue the SELECT.
HistoryStart ==
  /\ rd.pc \in {"idle", "done"}
  /\ \E query \in LimitQueries :
       rd' = [IdleRd EXCEPT !.pc = "rows", !.kind = "history", !.query = query,
                            !.limit = historyLimit(query)]
  /\ UNCHANGED <<now, ingestVars, sseVars, advVars, page>>

\* Callback of the SELECT: 500 on an error; otherwise the rows reversed into
\* chronological order, each in its adjusted view.
HistoryRows ==
  /\ rd.pc = "rows" /\ rd.kind = "history"
  /\ \E err \in BOOLEAN :
       IF err
         THEN rd' = [rd EXCEPT !.pc = "done", !.err = TRUE,
                       !.resp = ReadResp(500, FALSE, FALSE, <<>>, <<>>, NoProfile)]
         ELSE LET rows == Reverse(Limit(OrderDesc(readings), rd.limit))
              IN rd' = [rd EXCEPT !.pc = "done",
                          !.resp = ReadResp(200, TRUE, FALSE, <<>>,
                                      [k \in 1..Len(rows) |-> adjustForFrontend(rows[k])],
                                      NoProfile)]
  /\ UNCHANGED <<now, ingestVars, sseVars, advVars, page>>

\* GET /latest: the handler issues the SELECT.
LatestStart ==
  /\ rd.pc \in {"idle", "done"}
  /\ rd' = [IdleRd EXCEPT !.pc = "latest", !.kind = "latest"]
  /\ UNCHANGED <<now, ingestVars, sseVars, advVars, page>>

\* Variant of LatestRow that answers the row as it is stored.
LatestRowRaw ==
  /\ rd.pc = "latest" /\ rd.kind = "latest"
  /\ \E err \in BOOLEAN :
       IF err
         THEN rd' = [rd EXCEPT !.pc = "done", !.err = TRUE,
                       !.resp = ReadResp(500, FALSE, FALSE, <<>>, <<>>, NoProfile)]
         ELSE rd' = [rd EXCEPT !.pc = "done",
                       !.resp = ReadResp(200, TRUE, FALSE, <<>>,
                                   IF readings = <<>> THEN <<>>
                                   ELSE <<OrderDesc(readings)[1]>>,
                                   NoProfile)]
  /\ UNCHANGED <<now, ingestVars, sseVars, advVars, page>>

\* Callback of the SELECT: 500 on an error; otherwise data is the newest row
\* in its adjusted view, or null (no element) on an empty table.
LatestRow ==
  /\ rd.pc = "latest" /\ rd.kind = "latest"
  /\ \E err \in BOOLEAN :
       IF err
         THEN rd' = [rd EXCEPT !.pc = "done", !.err = TRUE,
                       !.resp = ReadResp(500, FALSE, FALSE, <<>>, <<>>, NoProfile)]
         ELSE rd' = [rd EXCEPT !.pc = "done",
                       !.resp = ReadResp(200, TRUE, FALSE, <<>>,
                                   IF readings = <<>> THEN <<>>
                                   ELSE <<adjustForFrontend(OrderDesc(readings)[1])>>,
                                   NoProfile)]
  /\ UNCHANGED <<now, ingestVars, sseVars, advVars, page>>

\* A field of a CSV line: "" for null, otherwise String(v), the decimal text
\* of the number.
csvField(v) == IF v \in {Null, Undefined} THEN [text |-> "", of |-> 0]
               ELSE [text |-> "decimal", of |-> v.v]

\* GET /export.csv: write the header line and issue the SELECT.
ExportStart ==
  /\ rd.pc \in {"idle", "done"}
  /\ rd' = [IdleRd EXCEPT !.pc = "rows", !.kind = "export"]
  /\ UNCHANGED <<now, ingestVars, sseVars, advVars, page>>

\* db.each over ORDER BY ts ASC (rows of equal ts in either order): one line
\* per row with the stored values; on an error the body ends with a comment
\* line (the status is 200 already, the header line having been written).
ExportRows ==
  /\ rd.pc = "rows" /\ rd.kind = "export"
  /\ \E err \in BOOLEAN :
       IF err
         THEN rd' = [rd EXCEPT !.pc = "done", !.err = TRUE,
                       !.resp = ReadResp(200, FALSE, FALSE, <<"# Error exporting CSV">>,
                                         <<>>, NoProfile)]
         ELSE \E order \in [1..Len(readings) -> 1..Len(readings)] :
                /\ \A j, k \in 1..Len(readings) :
                      /\ (j # k) => order[j] # order[k]
                      /\ (j < k) => readings[order[j]].ts.v <= readings[order[k]].ts.v
                /\ rd' = [rd EXCEPT !.pc = "done",
                            !.resp = ReadResp(200, TRUE, FALSE, <<>>,
                               [k \in 1..Len(readings) |->
                                  [f \in DOMAIN readings[order[k]] |->
                                     IF f = "id" THEN readings[order[k]].id
                                     ELSE csvField(readings[order[k]][f])]],
                               NoProfile)]
  /\ UNCHANGED <<now, ingestVars, sseVars, advVars, page>>

(***************************************************************************)
(* The dashboard page: deriveTrend over the predicted_iaq of its rows.     *)
(* Numbers of a series are held in thousandths (Num(10005) is 10.005), so  *)
(* that the thresholds 0.01 and 0.05 are compared exactly.                 *)
(***************************************************************************)
One == 1000             \* the number 1, in thousandths
TrendMinCount == 4
TrendWindow == 16

Abs(x) == IF x < 0 THEN 0 - x ELSE x

\* arr.slice(-n)
SliceLast(arr, n) == SubSeq(arr, Max(1, Len(arr) - n + 1), Len(arr))

\* Variant of deriveTrend that compares the ends of the whole series.
deriveTrendNoWindow(values) ==
  LET arr == SelectSeq(values, IsFiniteNumber)
  IN IF Len(arr) < TrendMinCount THEN "insufficient data"
     ELSE LET first == arr[1].v
              last  == arr[Len(arr)].v
              delta == last - first
              mag   == Abs(delta)
              base  == Max(One, Abs(first))
          IN IF mag * 100 < One THEN "steady"
             ELSE IF mag * 100 < 5 * base
                    THEN (IF delta > 0 THEN "slightly rising" ELSE "slightly falling")
             ELSE (IF delta > 0 THEN "rising" ELSE "falling")

\* deriveTrend(values): mag < 0.01 is mag * 100 < 1 and rel < 0.05 is
\* mag * 100 < 5 * base.
deriveTrend(values) ==
  LET arr == SelectSeq(values, IsFiniteNumber)
  IN IF Len(arr) < TrendMinCount THEN "insufficient data"
     ELSE LET windowed == SliceLast(arr, TrendWindow)
              first == windowed[1].v
              last  == windowed[Len(windowed)].v
              delta == last - first
              mag   == Abs(delta)
              base  == Max(One, Abs(first))
          IN IF mag * 100 < One THEN "steady"
             ELSE IF mag * 100 < 5 * base
                    THEN (IF delta > 0 THEN "slightly rising" ELSE "slightly falling")
             ELSE (IF delta > 0 THEN "rising" ELSE "falling")

\* n in thousandths.
Whole(n) == Num(n * One)

\* Values a row's predicted_iaq may hold on the page: 10, 10.005, 10.4, 10.5,
\* 9.5, 0.5, -10, and values that are not finite numbers.
TrendValues ==
  { Whole(10), Num(10005), Num(10400), Num(10500), Num(9500), Num(500),
    Whole(-10), Null, Infinite }

Repeat(x, n) == [k \in 1..n |-> x]

\* The series: every series of up to four values; the series of the examples;
\* series with values that are filtered out between four numbers; and series
\* of 17 and 18 numbers, longer than the window.
TrendSeries ==
  UNION {[1..n -> TrendValues] : n \in 0..4}
  \cup { <<Whole(1)>>, <<Whole(1), Whole(2), Whole(3)>>,
         <<Whole(10), Whole(20), Whole(30), Whole(40)>>,
         <<Whole(100), Whole(101), Whole(101), Whole(102)>> }
  \cup { <<a, j, Whole(10), Whole(10)>> \o <<j, b>> :
           a \in TrendValues, b \in TrendValues, j \in {Null, Str, Infinite} }
  \cup { <<a>> \o pre \o Repeat(Whole(10), 14) \o <<c>> :
           a \in {Whole(10), Num(500)}, pre \in {<<Whole(10)>>, <<Whole(10), Num(10400)>>},
           c \in {Whole(10), Num(10005), Num(10400), Num(10500)} }

\* The page, once mounted, receives the rows of /history (setRows) holding
\* these predicted_iaq values.
PageLoad ==
  /\ page.pc = "idle"
  /\ \E values \in TrendSeries :
       page' = [pc |-> "loaded", values |-> values, trend |-> ""]
  /\ UNCHANGED <<now, ingestVars, sseVars, advVars, rd>>

\* useMemo: the trend of the rows is derived.
PageTrend ==
  /\ page.pc = "loaded"
  /\ page' = [page EXCEPT !.pc = "shown", !.trend = deriveTrend(page.values)]
  /\ UNCHANGED <<now, ingestVars, sseVars, advVars, rd>>

(***************************************************************************)
(* Specifications.                                                         *)
(***************************************************************************)
Configs ==
  { [GEMINI_API_KEY |-> "", GEMINI_MODEL |-> "gemini-1.5-flash-latest"],
    [GEMINI_API_KEY |-> "key", GEMINI_MODEL |-> "gemini-1.5-flash-latest"],
    [GEMINI_API_KEY |-> "key", GEMINI_MODEL |-> "gemini-2.5-pro"] }

\* A row a previous run of the server left in iaq.db.
PersistedRow ==
  [id |-> 1, ts |-> Num(1), pm25 |-> Num(12), voc |-> Num(200), c2h5oh |-> Num(50),
   co |-> Num(3), predicted_iaq |-> Num(320), current_iaq |-> Num(42)]

InitWith(stores) ==
  /\ now = 1
  /\ readings \in stores
  /\ ingest = [i \in Ingests |-> IdleIngest]
  /\ cbQueue = <<>>
  /\ published = <<>>
  /\ sseClients = {}
  /\ conn = [s \in Sessions |-> "none"]
  /\ received = [s \in Sessions |-> <<>>]
  /\ profiles = <<>>
  /\ config \in Configs
  /\ req = IdleReq
  /\ rd = IdleRd
  /\ page = IdlePage

\* The server starts on a fresh database.
Init == InitWith({<<>>})

\* POST /data requests of the set I with bodies of the set B.
IngestNextOf(I, B) ==
  \/ \E i \in I : DataReceiveFrom(i, B)
  \/ \E i \in I : DbInsert(i)
  \/ \E i \in I : DataCallback(i)

IngestNext == IngestNextOf(Ingests, Bodies)

SseNextOf(S) ==
  \/ \E s \in S : Stream(s)
  \/ \E s \in S : Close(s)

SseNext == SseNextOf(Sessions)

AdviceNext ==
  \/ ProfileSave
  \/ ProfileDelete
  \/ ChatStart
  \/ ChatProfile
  \/ ChatReturn
  \/ AdvicePostStart
  \/ AdviceGetStart
  \/ AdviceGetLatest
  \/ AdviceGetRecent
  \/ AdviceProfile
  \/ AdviceReturn

ReadNext ==
  \/ EmergencyStart
  \/ EmergencyLatest
  \/ EmergencyProfile
  \/ HistoryStart
  \/ HistoryRows
  \/ ProfileReadStart
  \/ ProfileRead

PageNext == PageLoad \/ PageTrend

Next == IngestNext \/ SseNext \/ AdviceNext \/ ReadNext \/ PageNext \/ Tick

\* The whole server.
Spec == Init /\ [][Next]_vars

\* Ingestion with one viewer connected: one POST /data at a time, over every body.
NextIngest == IngestNextOf({"i1"}, Bodies) \/ SseNextOf({"s1"})
SpecIngest == Init /\ [][NextIngest]_vars

\* The advisory endpoints and the profile endpoints, started on a database
\* that is empty or holds a row of a previous run.
InitAdvice == InitWith({<<>>, <<PersistedRow>>})
NextAdvice == AdviceNext
SpecAdvice == InitAdvice /\ [][NextAdvice]_vars

\* The advisory endpoints with every profile body that POST /profile accepts.
NextRequests ==
  \/ ProfileSaveFrom(ProfileBodies \cup {NullMemberBody})
  \/ ProfileDelete
  \/ ChatStart
  \/ ChatProfile
  \/ ChatReturn
  \/ AdvicePostStart
  \/ AdviceGetStart
  \/ AdviceGetLatest
  \/ AdviceGetRecent
  \/ AdviceProfile
  \/ AdviceReturn
SpecRequests == InitAdvice /\ [][NextRequests]_vars

\* Series of a field of recentData (numbers in thousandths): every series of
\* up to four values among 10, 10.5, null and a missing field; series with an
\* infinite value or a string at an end; and series of 17 numbers, longer
\* than the tail.
ChatTrendSeries ==
  UNION {[1..n -> {Whole(10), Num(10500), Null, Undefined}] : n \in 0..4}
  \cup { <<a, Whole(10), Whole(10), Whole(10), b>> :
           a \in {Whole(10), Infinite, Str}, b \in {Whole(10), Infinite, Str} }
  \cup { <<a>> \o Repeat(Whole(10), 15) \o <<c>> :
           a \in {Whole(10), Num(500)}, c \in {Whole(10), Num(10400)} }

\* Bodies of POST /chat whose recentData holds such a series in predicted_iaq
\* and pm25, the other series constant.
ChatTrendViews ==
  { [latest |-> Null,
     recent |-> [k \in 1..Len(series) |->
                   [ViewRow(0) EXCEPT !.predicted_iaq = series[k], !.pm25 = series[k]]]] :
    series \in ChatTrendSeries }

\* POST /chat over these bodies, answered locally.
NextChatTrend == ChatStartFrom(ChatTrendViews) \/ ChatProfile
SpecChatTrend == Init /\ [][NextChatTrend]_vars

\* A profile that shares with the provider.
SharingBodies == {b \in ProfileBodies : b.preferences.shareWithGemini}

\* GET /lifestyle-advice while POST /data requests are served.
NextSnapshot ==
  \/ IngestNextOf({"i1"}, {GoodBody})
  \/ ProfileSaveFrom(SharingBodies)
  \/ AdviceGetStart
  \/ AdviceGetLatest
  \/ AdviceGetRecent
  \/ AdviceProfile
  \/ AdviceReturn
  \/ Tick
SpecSnapshot == InitAdvice /\ [][NextSnapshot]_vars

\* POST /chat with a viewer on /stream while POST /data requests are served.
\* The callbacks of the database run once their statement has completed, so
\* the steps of the server are fair. A provider call returns when the provider
\* answers: doFetch is given no timeout and no abort signal, and nothing in
\* the server makes it return, so ChatReturn carries no fairness.
NextHung ==
  \/ IngestNextOf({"i1"}, {GoodBody})
  \/ SseNextOf({"s1"})
  \/ ProfileSaveFrom(SharingBodies)
  \/ ChatStart
  \/ ChatProfile
  \/ ChatReturn
FairHung ==
  /\ WF_vars(DbInsert("i1"))
  /\ WF_vars(DataCallback("i1"))
  /\ WF_vars(ChatProfile)
SpecHung == Init /\ [][NextHung]_vars /\ FairHung

\* Profiles that share with the provider and differ in a member's notes or in
\* the notification preference.
PrivacyBodies ==
  { [owner_name |-> "Asha",
     members |-> << Member("Ravi", "Father", Num(70), <<"Asthma">>, notes) >>,
     preferences |-> [shareWithGemini |-> TRUE, receiveNotifications |-> notify]] :
    notes \in {"", "sees a cardiologist"}, notify \in BOOLEAN } \
  { [owner_name |-> "Asha",
     members |-> << Member("Ravi", "Father", Num(70), <<"Asthma">>, "sees a cardiologist") >>,
     preferences |-> [shareWithGemini |-> TRUE, receiveNotifications |-> FALSE]] }

\* POST /chat and POST /lifestyle-advice over these profiles.
NextPrivacy ==
  \/ ProfileSaveFrom(PrivacyBodies)
  \/ ProfileDelete
  \/ ChatStart
  \/ ChatProfile
  \/ ChatReturn
  \/ AdvicePostStart
  \/ AdviceProfile
  \/ AdviceReturn
SpecPrivacy == InitAdvice /\ [][NextPrivacy]_vars

\* Bodies for the live stream: with a prediction, and with current_iaq only.
StreamBodies == {GoodBody, [GoodBody EXCEPT !.predicted_iaq = Undefined]}

\* Two viewers on /stream while two POST /data requests are in flight.
NextStream == IngestNextOf(Ingests, StreamBodies) \/ SseNextOf(Sessions)
SpecStream == Init /\ [][NextStream]_vars

\* A viewer on /stream and the reads of /latest, /history and /export.csv
\* while the device posts readings.
NextDisplay ==
  \/ IngestNextOf({"i1"}, StreamBodies)
  \/ SseNextOf({"s1"})
  \/ LatestStart
  \/ LatestRow
  \/ HistoryStart
  \/ HistoryRows
  \/ ExportStart
  \/ ExportRows
SpecDisplay == Init /\ [][NextDisplay]_vars

\* What the viewer forwards as `latest`: the newest reading as GET /latest and
\* /stream present it, that is in its adjusted view.
ForwardedViews ==
  IF readings = <<>> THEN {}
  ELSE { [latest |-> adjustForFrontend(OrderDesc(readings)[1]), recent |-> <<>>] }

\* The three advisory routes and GET /emergency-check while the device posts
\* readings around the threshold; no profile is stored, so every answer is the
\* rule engine's.
NextTier ==
  \/ IngestNextOf({"i1"}, EmergencyBodies)
  \/ EmergencyStart
  \/ EmergencyLatest
  \/ EmergencyProfile
  \/ AdviceGetStart
  \/ AdviceGetLatest
  \/ AdviceGetRecent
  \/ AdvicePostStartFrom(ForwardedViews)
  \/ AdviceProfile
  \/ ChatStartFrom(ForwardedViews)
  \/ ChatProfile
SpecTier == Init /\ [][NextTier]_vars

\* Bodies of POST /lifestyle-advice whose latest reading holds an IAQ at and
\* around every tier, a value that is no finite number, or is missing.
RuleViews ==
  { [latest |-> [ViewRow(0) EXCEPT !.predicted_iaq = p, !.pm25 = pm],
     recent |-> <<>>] :
       p \in {Num(n) : n \in {-5, 0, 99, 100, 120, 149, 150, 199, 200, 299, 300, 320}}
              \cup {Undefined, Null, Infinite},
       pm \in {Num(12), Num(150)} }
  \cup { [latest |-> Null, recent |-> <<>>] }

\* The rule engine answering POST /lifestyle-advice while no profile is stored.
NextRules == AdvicePostStartFrom(RuleViews) \/ AdviceProfile
SpecRules == Init /\ [][NextRules]_vars

\* The dashboard page deriving the trend of the series it holds.
NextTrend == PageLoad \/ PageTrend
SpecTrend == Init /\ [][NextTrend]_vars

\* The profile endpoints while time passes.
NextProfile ==
  \/ ProfileSave
  \/ ProfileDelete
  \/ ProfileReadStart
  \/ ProfileRead
  \/ Tick
SpecProfile == Init /\ [][NextProfile]_vars

\* GET /history over every limit while the device posts readings.
NextHistory ==
  \/ IngestNextOf({"i1"}, HistoryBodies)
  \/ HistoryStart
  \/ HistoryRows
SpecHistory == Init /\ [][NextHistory]_vars

\* GET /emergency-check while the device posts readings around the threshold.
NextEmergency ==
  \/ IngestNextOf({"i1"}, EmergencyBodies)
  \/ EmergencyStart
  \/ EmergencyLatest
  \/ EmergencyProfile
SpecEmergency == Init /\ [][NextEmergency]_vars

(***************************************************************************)
(* Properties of ingestion (checked under SpecIngest).                     *)
(***************************************************************************)
StoredIds == {readings[k].id : k \in 1..Len(readings)}
Front(seq) == SubSeq(seq, 1, Len(seq) - 1)

\* Inserts that succeeded and whose callback has not run yet.
CommittedNotCalledBack ==
  {i \in Ingests : ingest[i].pc = "completed" /\ ~ingest[i].err}

\* C1: a record is broadcast only after its INSERT succeeded: every record
\* passed to broadcast() and every message a viewer received carries the id of
\* a row already in the table, each stored row is broadcast at most once (and
\* exactly once when its callback has run), and an ingestion whose INSERT
\* failed is answered 500 without an id and adds nothing to the broadcasts.
C1_StoreThenBroadcast ==
  /\ \A k \in 1..Len(published) : published[k].id \in StoredIds
  /\ \A k, j \in 1..Len(published) : published[k].id = published[j].id => k = j
  /\ Len(published) + Cardinality(CommittedNotCalledBack) = Len(readings)
  /\ \A s \in Sessions : \A k \in 1..Len(received[s]) :
        received[s][k].event = "message" => received[s][k].data.id \in StoredIds
  /\ \A i \in Ingests :
        (ingest[i].pc = "done" /\ ingest[i].err) =>
           /\ ingest[i].resp.status = 500
           /\ ~ingest[i].resp.ok
           /\ ingest[i].resp.id = 0
           /\ ingest[i].lastID = 0

\* C1 witness: an INSERT has failed and been answered after an earlier record
\* was stored, broadcast and received by a viewer.
C1_Witness ==
  /\ \E i \in Ingests : ingest[i].pc = "done" /\ ingest[i].err
  /\ Len(published) >= 1
  /\ \E s \in Sessions : \E k \in 1..Len(received[s]) : received[s][k].event = "message"

\* A body the ingestion contract rejects: a sensor field that is missing, not
\* a number or not finite, or no finite predicted_iaq and no finite current_iaq.
C2_SensorBad(b) ==
  \E f \in {"pm25", "voc", "c2h5oh", "co"} : b[f].t # "number"
C2_NoPrediction(b) == b.predicted_iaq.t # "number" /\ b.current_iaq.t # "number"
C2_Invalid(b) == C2_SensorBad(b) \/ C2_NoPrediction(b)

C2_Rejected ==
  \A i \in Ingests :
     (ingest[i].pc # "idle" /\ C2_Invalid(ingest[i].body)) =>
        /\ ingest[i].pc = "done"
        /\ ingest[i].resp.status = 400
        /\ ~ingest[i].resp.ok
        /\ ingest[i].resp.id = 0
        /\ ingest[i].stmt = NoStmt
        /\ ingest[i].lastID = 0

C2_NoEffect ==
  \A i \in Ingests :
     (ingest[i].pc \in {"idle", "done"} /\ ingest'[i] # ingest[i]
        /\ C2_Invalid(ingest'[i].body)) =>
        /\ readings' = readings
        /\ published' = published
        /\ received' = received
        /\ cbQueue' = cbQueue

\* C2: a POST /data whose body has a missing, non-numeric or non-finite sensor
\* field, or valid sensors but neither a finite predicted_iaq nor a finite
\* current_iaq, is answered 400 without a statement being issued, and the step
\* that handles it changes neither the table nor what has been broadcast.
C2_ValidationError == []C2_Rejected /\ [][C2_NoEffect]_vars

\* C2 witness: with a row stored and broadcast, a body with four valid sensor
\* fields and no usable prediction has been answered 400.
C2_Witness ==
  /\ Len(readings) >= 1 /\ Len(published) >= 1
  /\ \E i \in Ingests :
        /\ ingest[i].pc = "done" /\ ingest[i].resp.status = 400
        /\ ~C2_SensorBad(ingest[i].body) /\ C2_NoPrediction(ingest[i].body)

\* C3: every stored reading has a finite predicted_iaq and a current_iaq that
\* is a finite number or null; the row an ingestion stored holds the device's
\* predicted_iaq when that was finite, otherwise the device's finite
\* current_iaq, and its current_iaq is the device's finite value or null.
C3_StoredPrediction ==
  /\ \A k \in 1..Len(readings) :
        /\ readings[k].predicted_iaq.t = "number"
        /\ readings[k].current_iaq.t \in {"number", "null"}
  /\ \A i \in Ingests :
        ingest[i].lastID # 0 =>
           LET row == readings[ingest[i].lastID]
               b   == ingest[i].body
           IN /\ row.predicted_iaq =
                   IF b.predicted_iaq.t = "number" THEN b.predicted_iaq ELSE b.current_iaq
              /\ row.current_iaq =
                   IF b.current_iaq.t = "number" THEN b.current_iaq ELSE Null

\* C3 witness: a body without predicted_iaq and with current_iaq = 42 has been
\* stored with predicted_iaq = 42.
C3_Witness ==
  \E i \in Ingests :
     /\ ingest[i].lastID # 0
     /\ ingest[i].body.predicted_iaq = Undefined
     /\ ingest[i].body.current_iaq = Num(42)
     /\ readings[ingest[i].lastID].predicted_iaq = Num(42)

(***************************************************************************)
(* Properties of the advisory endpoints (checked under SpecAdvice).        *)
(***************************************************************************)
\* The request has passed the sharing decision of the getProfile callback.
Decided ==
  \/ req.pc = "await"
  \/ req.pc = "done" /\ req.resp.status \notin {400, 500}

\* The step is the return of a provider call handled by the request.
ProviderReturned ==
  req.pc = "await" /\ (req'.pc = "done" \/ req'.tried # req.tried)

PrimarySentences ==
  {PrimaryEmergency, PrimaryVeryUnhealthy, PrimaryUnhealthy, PrimarySensitive,
   PrimaryAcceptable, PrimaryDefault}

\* The answer is the rule engine's: marked local and holding a primary sentence.
FromRuleEngine(resp) ==
  /\ resp.ok /\ resp.status = 200
  /\ resp.source = "local" /\ ~resp.usedGemini
  /\ \E k \in 1..Len(resp.text) : resp.text[k] \in PrimarySentences

\* Sharing is off for the profile the request read: none, the preference is
\* false, or no API key is configured.
C4_SharingOff(profile) ==
  \/ profile = NoProfile
  \/ ~profile.preferences.shareWithGemini
  \/ config.GEMINI_API_KEY = ""

\* Sharing is off whichever latest row of the table a read returns.
C4_TableSharingOff ==
  \/ config.GEMINI_API_KEY = ""
  \/ \A k \in 1..Len(profiles) :
        (\A j \in 1..Len(profiles) : profiles[j].updated_ts <= profiles[k].updated_ts)
           => ~profiles[k].preferences.shareWithGemini

C4_NoCall ==
  C4_SharingOff(req.profile) =>
     /\ req.tried = <<>> /\ req.prompt = <<>> /\ req.pc # "await"
     /\ Decided => FromRuleEngine(req.resp)

C4_Decision ==
  (req.pc = "profile" /\ req'.pc # "profile" /\ C4_TableSharingOff) =>
     /\ req'.tried = <<>> /\ req'.prompt = <<>>
     /\ req'.pc = "done" /\ FromRuleEngine(req'.resp)

\* C4: when the profile a chat or lifestyle-advice request read has sharing
\* off, or there is no profile, or no API key is configured, the request sends
\* no prompt to any model and is answered by the rule engine; and the sharing
\* decision taken while the latest profile of the table has sharing off (or
\* the table is empty, or there is no key) sends nothing.
C4_NoExternalCall == []C4_NoCall /\ [][C4_Decision]_vars

\* C4 witness: with an API key configured, a request that read a profile with
\* sharing off has been answered locally.
C4_Witness ==
  /\ config.GEMINI_API_KEY # ""
  /\ req.pc = "done" /\ req.profile # NoProfile
  /\ ~req.profile.preferences.shareWithGemini
  /\ req.resp.source = "local" /\ req.tried = <<>>

NonBlank(text) == \E k \in 1..Len(text) : text[k] # Blank

\* A recoverable result: a transport exception, status 404, 429 or 503, an
\* error message matching the retryable pattern, or a success (not flagged by
\* the safety filter) with empty text.
C5_Recoverable(r) ==
  \/ r.thrown
  \/ r.status \in {404, 429, 503}
  \/ r.error = "retryable"
  \/ r.status = 200 /\ r.error = "none" /\ ~r.blocked /\ ~NonBlank(r.text)

C5_Step ==
  (ProviderReturned /\ C5_Recoverable(req'.last)) =>
     IF Len(req.tried) < Len(modelsToTry)
       THEN /\ req'.pc = "await"
            /\ req'.tried = Append(req.tried, modelsToTry[Len(req.tried) + 1])
            /\ req'.resp = NoAdvResp
       ELSE /\ req'.pc = "done"
            /\ req'.resp.ok /\ req'.resp.error = ""

\* C5: when a candidate's result is recoverable, the next candidate of the
\* list is attempted and nothing is answered yet; after the last candidate the
\* request is answered without an error.
C5_RecoverableTriesNext == [][C5_Step]_vars

\* C5 witness: a second candidate is in flight after the first returned 429.
C5_Witness ==
  /\ req.pc = "await" /\ Len(req.tried) = 2
  /\ req.last.status = 429 /\ req.resp = NoAdvResp

\* C6 as stated: after any response with status 401 the request has ended with
\* an error response (it is not waiting for another candidate and was not
\* answered by the rule engine).
C6_Original ==
  req.last.status = 401 =>
     /\ req.pc = "done"
     /\ req.resp.status = 502 /\ ~req.resp.ok

\* A non-retryable failure: a response whose body parsed, with a non-success
\* status outside {404, 429, 503} and a message that does not match the
\* retryable pattern.
C6_NonRetryable(r) ==
  /\ ~r.thrown
  /\ r.status \notin {0, 200, 404, 429, 503}
  /\ r.error # "retryable"

C6_Aborted ==
  C6_NonRetryable(req.last) =>
     /\ req.pc = "done"
     /\ req.resp.status = 502 /\ ~req.resp.ok
     /\ req.resp.error = MessageOf(req.last)
     /\ req.resp.source # "local" /\ req.resp.text = <<>>

C6_NoLaterCandidate ==
  (ProviderReturned /\ C6_NonRetryable(req'.last)) =>
     req'.pc = "done" /\ req'.tried = req.tried

\* C6 (amended): a response with status 401 (or another non-success status
\* outside {404, 429, 503}) whose body is JSON and whose error message does
\* not match the retryable pattern ends the request at once with a 502 error
\* carrying the message: no later candidate is attempted and the rule engine
\* is not used.
C6_NonRetryableAborts == []C6_Aborted /\ [][C6_NoLaterCandidate]_vars

\* C6 witness: the first candidate answered 401 with a non-retryable message
\* and the request ended with a 502 while candidates were left.
C6_Witness ==
  /\ req.pc = "done" /\ req.last.status = 401 /\ C6_NonRetryable(req.last)
  /\ req.resp.status = 502
  /\ Len(req.tried) = 1 /\ Len(req.tried) < Len(modelsToTry)

\* Every candidate has been tried and the last result was recoverable too.
Exhausted ==
  /\ req.pc = "done"
  /\ Len(req.tried) = Len(modelsToTry)
  /\ C5_Recoverable(req.last)

\* C7: when every candidate is exhausted without an accepted answer the caller
\* gets an ok response from the rule engine, marked as not using the provider,
\* and the last recorded provider error is nowhere in it.
C7_ExhaustedFallsBackLocally ==
  Exhausted =>
     /\ FromRuleEngine(req.resp)
     /\ req.resp.error = ""
     /\ req.lastError # ""
     /\ ~InSeq(req.lastError, req.resp.text)

\* C7 witness: a /chat request whose last candidate returned 503 has been
\* answered from the rule engine.
C7_Witness ==
  /\ Exhausted /\ req.mode = "chat"
  /\ req.last.status = 503 /\ req.resp.ok

\* A success flagged by the safety filter.
C8_Flagged(r) == ~r.thrown /\ r.status = 200 /\ r.error = "none" /\ r.blocked

\* C8 as stated: in chat and in lifestyle advice, after a success flagged by
\* the safety filter the request has ended with the blocked response (status
\* 200, not ok, no advice text): no further candidate and no rule engine.
C8_SafetyBlockedIsTerminal ==
  C8_Flagged(req.last) =>
     /\ req.pc = "done"
     /\ req.resp.status = 200 /\ ~req.resp.ok
     /\ req.resp.error = "Response blocked by safety filter"
     /\ req.resp.text = <<>>

\* C9 as stated: the text of every successful advisory response ends with the
\* educational disclaimer.
C9_DisclaimerAlwaysAppended ==
  (req.pc = "done" /\ req.resp.ok) =>
     /\ req.resp.text # <<>>
     /\ req.resp.text[Len(req.resp.text)] \in {ChatDisclaimer, AdviceDisclaimer}

\* Some member's conditions match the respiratory pattern; some member's age
\* is at least 60.
C10_Respiratory(profile) ==
  \E k \in 1..Len(profile.members) :
     \E c \in 1..Len(profile.members[k].conditions) :
        profile.members[k].conditions[c] \in {"Asthma", "COPD", "chronic bronchitis"}
C10_Elder(profile) ==
  \E k \in 1..Len(profile.members) :
     profile.members[k].age.t \in {"number", "string"} /\ profile.members[k].age.v >= 60

\* The clauses personalization owes a profile, in order.
C10_Clauses(profile) ==
  IF profile = NoProfile THEN <<>>
  ELSE (IF C10_Respiratory(profile) THEN <<RespiratoryClause>> ELSE <<>>)
       \o (IF C10_Elder(profile) THEN <<ElderClause>> ELSE <<>>)

C10_Base ==
  IF req.mode = "chat" /\ req.tried = <<>>
    THEN chatLocalAnswer(req.latest, NoProfile)
    ELSE <<getResearchBasedAdvice(req.latest, analyzeLifestyleContext(req.latest)).primary>>

C17_Tier(n) ==
  IF n >= 300 THEN PrimaryEmergency
  ELSE IF n >= 200 THEN PrimaryVeryUnhealthy
  ELSE IF n >= 150 THEN PrimaryUnhealthy
  ELSE IF n >= 100 THEN PrimarySensitive
  ELSE PrimaryAcceptable

\* The primary sentences in a text, in order.
C17_Primaries(text) == SelectSeq(text, LAMBDA part : part \in PrimarySentences)

\* C17 (checked under SpecRules): when the latest reading given to the rule
\* engine has a finite IAQ value, the answer holds exactly one primary
\* sentence, the one of the tier of that value (>= 300 emergency, >= 200 very
\* unhealthy, >= 150 unhealthy, >= 100 sensitive individuals, acceptable
\* below), so 320 gives the emergency sentence and 120 the sentence for
\* sensitive individuals; the sentence is determined by the IAQ value alone.
C17_PrimaryTier ==
  (req.pc = "done" /\ req.resp.source = "local" /\ req.latest # Null
     /\ req.latest.predicted_iaq.t = "number") =>
     LET n == req.latest.predicted_iaq.v
     IN /\ C17_Primaries(req.resp.text) = <<C17_Tier(n)>>
        /\ n = 320 => req.resp.text[1] = PrimaryEmergency
        /\ n = 120 => req.resp.text[1] = PrimarySensitive

\* C17 witness: a latest reading with IAQ exactly 300 was answered with the
\* emergency sentence.
C17_Witness ==
  /\ req.pc = "done" /\ req.resp.source = "local" /\ req.latest # Null
  /\ req.latest.predicted_iaq = Num(300)
  /\ req.resp.text[1] = PrimaryEmergency

(***************************************************************************)
(* Properties of the read endpoints.                                       *)
(***************************************************************************)
\* Row k is the latest stored reading: no row has a greater ts, or the same ts
\* and a greater id.
IsLatest(k) ==
  \A j \in 1..Len(readings) :
     \/ readings[j].ts.v < readings[k].ts.v
     \/ readings[j].ts.v = readings[k].ts.v /\ readings[j].id <= readings[k].id

\* The step in which /emergency-check reads the table.
C11_Read == rd.kind = "emergency" /\ rd.pc = "latest" /\ rd'.pc # "latest"

C11_Answer ==
  (rd.kind = "emergency" /\ rd.pc = "done") =>
     /\ rd.resp.ok /\ rd.resp.status = 200
     /\ rd.resp.emergency <=>
          (rd.latest # Null /\ rd.latest.predicted_iaq.v >= 300)

C11_ReadsLatest ==
  C11_Read =>
     IF readings = <<>>
       THEN rd'.pc = "done" /\ rd'.latest = Null
       ELSE /\ rd'.pc = "profile"
            /\ \E k \in 1..Len(readings) : IsLatest(k) /\ rd'.latest = readings[k]

C11_ReadsLatestOrFails ==
  C11_Read =>
     IF readings = <<>> \/ rd'.err
       THEN rd'.pc = "done" /\ rd'.latest = Null
       ELSE /\ rd'.pc = "profile"
            /\ \E k \in 1..Len(readings) : IsLatest(k) /\ rd'.latest = readings[k]

C14_Limit(query) ==
  IF ~query.present \/ query.text \in {<<>>, <<"a", "b", "c">>} THEN 500
  ELSE IF query.text \in {<<"0">>, <<"-", "3">>, <<"1">>} THEN 1
  ELSE IF query.text \in {<<"2">>, <<"2", "x">>} THEN 2
  ELSE 5000

\* Row a is older than row b: a smaller ts, or the same ts and a smaller id.
C14_Older(a, b) == a.ts.v < b.ts.v \/ (a.ts.v = b.ts.v /\ a.id < b.id)

C14_Clamped ==
  (rd.kind = "history" /\ rd.pc # "idle") => rd.limit = C14_Limit(rd.query)

C14_Rows ==
  (rd.kind = "history" /\ rd.pc = "rows" /\ rd'.pc = "done" /\ rd'.resp.ok) =>
     LET data == rd'.resp.data
         L == C14_Limit(rd.query)
         n == Len(readings)
         ids == {data[k].id : k \in 1..Len(data)}
     IN /\ Len(data) = IF L < n THEN L ELSE n
        /\ Cardinality(ids) = Len(data)
        /\ \A k \in 1..Len(data) :
              \E j \in 1..n : /\ readings[j].id = data[k].id
                              /\ readings[j].ts = data[k].ts
        /\ \A k \in 1..(Len(data) - 1) : C14_Older(data[k], data[k + 1])
        /\ \A j \in 1..n : readings[j].id \notin ids =>
              \A k \in 1..Len(data) : C14_Older(readings[j], data[k])

\* C14: /history computes its limit as 500 for an absent or unparsable value
\* and as the value clamped into [1, 5000] otherwise (10000 gives 5000, 0
\* gives 1), and a successful response lists exactly the min(limit, n) most
\* recent of the n stored readings, each once, in ascending order of time
\* with ties in ascending order of id.
C14_HistoryLimit == []C14_Clamped /\ [][C14_Rows]_vars

\* C14 witness: limit=0 returned one of two stored readings, the one with the
\* greater ts although it was appended first.
C14_Witness ==
  /\ rd.kind = "history" /\ rd.pc = "done" /\ rd.resp.ok
  /\ rd.query = Query(<<"0">>)
  /\ Len(readings) = 2 /\ readings[2].ts.v < readings[1].ts.v
  /\ Len(rd.resp.data) = 1 /\ rd.resp.data[1].id = 1

\* C15 as stated: a profile read that succeeds returns the version written
\* last (the last row of the table) when a save followed the last delete, and
\* none when the table is empty; an older version is never returned, also
\* when two saves carry the same updated_ts.
C15_ReadsLastWritten ==
  [][(rd.kind = "profile" /\ rd.pc = "read" /\ rd'.pc = "done" /\ ~rd'.err) =>
        rd'.resp.profile = IF profiles = <<>> THEN NoProfile
                           ELSE profiles[Len(profiles)]]_vars

(***************************************************************************)
(* Properties of the live stream (checked under SpecStream).               *)
(***************************************************************************)
\* The step is a call of broadcast().
Broadcasts == published' # published

C12_Publish ==
  Broadcasts =>
     LET event == MessageEvent(published'[Len(published')])
     IN /\ \A s \in sseClients :
             \/ s \in sseClients' /\ received'[s] = Append(received[s], event)
             \/ s \notin sseClients' /\ received'[s] = received[s]
        /\ \A s \in Sessions \ sseClients :
             s \notin sseClients' /\ received'[s] = received[s]
        /\ Len(published') = Len(published) + 1
        /\ \E i \in Ingests :
             /\ ingest[i].pc = "completed" /\ ingest'[i].pc = "done"
             /\ ingest'[i].resp.status = 200 /\ ingest'[i].resp.ok

\* C12: a call of broadcast() writes the event once to every session that is
\* subscribed at the call; a session whose write fails is removed from the set
\* and is not written to again by this call, every other subscribed session
\* receives the event, sessions that are not subscribed get nothing, and the
\* call completes (the ingestion is answered 200) also when no session is
\* subscribed.
C12_PublishToSubscribers == [][C12_Publish]_vars

\* C12 witness: a broadcast dropped s1 on a failed write (its connection is
\* still open) while s2 got the event.
C12_Witness ==
  /\ conn["s1"] = "open" /\ "s1" \notin sseClients
  /\ received["s1"] = <<PingEvent>>
  /\ "s2" \in sseClients /\ Len(received["s2"]) = 2
  /\ received["s2"][2].event = "message"

\* The stored row with the id of a broadcast record.
RowOf(id) == readings[CHOOSE k \in 1..Len(readings) : readings[k].id = id]

\* C13 as stated: every record passed to broadcast(), and so every reading
\* event a viewer receives, equals field by field (predicted_iaq included)
\* the row stored for that ingestion.
C13_BroadcastIsStored ==
  /\ \A k \in 1..Len(published) : published[k] = RowOf(published[k].id)
  /\ \A s \in Sessions : \A k \in 1..Len(received[s]) :
        received[s][k].event = "message" =>
           received[s][k].data = RowOf(received[s][k].data.id)

(***************************************************************************)
(* Properties of the dashboard page (checked under SpecTrend).             *)
(***************************************************************************)
\* The finite numbers of a series, in order, in thousandths.
C16_Numbers(values) ==
  LET keep == {k \in 1..Len(values) : values[k].t = "number"}
      F[k \in 0..Len(values)] ==
        IF k = 0 THEN <<>>
        ELSE IF k \in keep THEN Append(F[k - 1], values[k].v) ELSE F[k - 1]
  IN F[Len(values)]

\* The trend as the claim words it: on the last 16 numbers, |last - first|
\* below 0.01 is steady, a relative change below 0.05 is slight.
C16_Trend(values) ==
  LET nums  == C16_Numbers(values)
      n     == Len(nums)
      first == nums[IF n > 16 THEN n - 15 ELSE 1]
      last  == nums[n]
      up    == last > first
      mag   == IF up THEN last - first ELSE first - last
      unit  == IF first >= 1000 THEN first
               ELSE IF first <= -1000 THEN 0 - first ELSE 1000
  IN IF n < 4 THEN "insufficient data"
     ELSE IF mag < 10 THEN "steady"
     ELSE IF 20 * mag < unit THEN (IF up THEN "slightly rising" ELSE "slightly falling")
     ELSE (IF up THEN "rising" ELSE "falling")

C16_Examples ==
  /\ page.values \in {<<>>, <<Num(1000)>>, <<Num(1000), Num(2000), Num(3000)>>}
        => page.trend = "insufficient data"
  /\ page.values = <<Num(10000), Num(10000), Num(10000), Num(10000)>>
        => page.trend = "steady"
  /\ page.values = <<Num(10000), Num(20000), Num(30000), Num(40000)>>
        => page.trend = "rising"
  /\ page.values = <<Num(100000), Num(101000), Num(101000), Num(102000)>>
        => page.trend = "slightly rising"

\* C16: the trend shown for a series is "insufficient data" when fewer than 4
\* finite numbers remain after filtering, and otherwise, on the last 16 of
\* them, "steady" when |last - first| < 0.01, "slightly rising" or "slightly
\* falling" by sign when |last - first| / max(1, |first|) < 0.05, and "rising"
\* or "falling" by sign otherwise; the claim's six example series give the
\* results it names.
C16_TrendClassification ==
  page.pc = "shown" =>
     /\ page.trend = C16_Trend(page.values)
     /\ C16_Examples

\* C16 witness: a series of 18 numbers whose first value is 0.5 and whose
\* last 16 run from 10.4 to 10.5 is shown as slightly rising.
C16_Witness ==
  /\ page.pc = "shown" /\ Len(page.values) = 18
  /\ page.values[1] = Num(500) /\ page.values[3] = Num(10400)
  /\ page.values[18] = Num(10500)
  /\ page.trend = "slightly rising"

\* C18: a session is written the ping when it subscribes: whatever a session
\* has received starts with the ping, everything after it is a reading event,
\* a session that is or was subscribed has received the ping, and one that
\* never connected has received nothing.
C18_KeepaliveFirst ==
  \A s \in Sessions :
     /\ conn[s] = "none" => received[s] = <<>> /\ s \notin sseClients
     /\ conn[s] # "none" =>
          /\ received[s] # <<>> /\ received[s][1] = PingEvent
          /\ \A k \in 2..Len(received[s]) : received[s][k].event = "message"

\* C18 witness: a session has received the ping and then a reading event.
C18_Witness ==
  \E s \in Sessions :
     /\ Len(received[s]) >= 2
     /\ received[s][1].event = "ping" /\ received[s][2].event = "message"

C19_Appends ==
  \/ readings' = readings
  \/ /\ Len(readings') = Len(readings) + 1
     /\ SubSeq(readings', 1, Len(readings)) = readings
     /\ \A k \in 1..Len(readings) : readings[k].id < readings'[Len(readings')].id
     /\ \E i \in Ingests :
          /\ ingest[i].pc = "queued" /\ ingest'[i].pc = "completed"
          /\ ~ingest'[i].err /\ ingest'[i].lastID = readings'[Len(readings')].id
          /\ \A j \in Ingests \ {i} : ingest'[j] = ingest[j]

C19_OneRowEach ==
  /\ \A i \in Ingests :
        (ingest[i].pc = "done" /\ ingest[i].resp.ok) =>
           Cardinality({k \in 1..Len(readings) : readings[k].id = ingest[i].resp.id}) = 1
  /\ \A i, j \in Ingests :
        (i # j /\ ingest[i].lastID # 0) => ingest[i].lastID # ingest[j].lastID
  /\ \A k, j \in 1..Len(readings) : k < j => readings[k].id < readings[j].id

\* C19: no step changes or removes a stored reading: a step leaves the table
\* as it is or appends one row whose id is greater than every earlier id, and
\* that step is the successful INSERT of exactly one ingestion; every
\* ingestion answered ok has exactly one row, no two ingestions share a row,
\* and ids increase along the table.
C19_AppendOnly == []C19_OneRowEach /\ [][C19_Appends]_vars

\* C19 witness: two ingestions in flight have each stored one row.
C19_Witness ==
  /\ Len(readings) = 2
  /\ ingest["i1"].lastID # 0 /\ ingest["i2"].lastID # 0
  /\ ingest["i1"].lastID # ingest["i2"].lastID

\* The ids of the reading events a session has received, in order.
EventIds(s) ==
  LET events == SelectSeq(received[s], LAMBDA e : e.event = "message")
  IN [k \in 1..Len(events) |-> events[k].data.id]

\* C20 as stated: the ids of the reading events delivered to a session are
\* strictly increasing (the Store's append order), and so no event is
\* delivered twice to a session.
C20_DeliveryInAppendOrder ==
  \A s \in Sessions :
     \A k, j \in 1..Len(EventIds(s)) : k < j => EventIds(s)[k] < EventIds(s)[j]

(***************************************************************************)
(* The Set of subscribed responses (checked under SpecStream).             *)
(***************************************************************************)
\* Every member of the Set is a connection that is open.
C21_MembersOpen == \A s \in sseClients : conn[s] = "open"

\* What one step does to the membership of session s.
C21_Membership(s) ==
  \* s enters the Set only by subscribing
  /\ (s \notin sseClients /\ s \in sseClients') =>
        conn[s] = "none" /\ conn'[s] = "open"
  \* a session that subscribes enters the Set
  /\ (conn[s] = "none" /\ conn'[s] = "open") => s \in sseClients'
  \* s leaves the Set only by disconnecting or by a write to it that failed
  /\ (s \in sseClients /\ s \notin sseClients') =>
        \/ conn'[s] = "closed"
        \/ Broadcasts /\ received'[s] = received[s]
  \* a member that disconnects, or whose write fails, leaves the Set
  /\ (s \in sseClients /\ conn'[s] = "closed") => s \notin sseClients'
  /\ (s \in sseClients /\ Broadcasts /\ received'[s] = received[s]) =>
        s \notin sseClients'
  \* a session that has left never comes back
  /\ (conn[s] # "none" /\ s \notin sseClients) => s \notin sseClients'

\* The close handler of a session that a failed write had already removed.
C21_RemovedAgain(s) ==
  (conn[s] = "open" /\ conn'[s] = "closed" /\ s \notin sseClients) =>
     /\ sseClients' = sseClients
     /\ received' = received
     /\ \A t \in Sessions \ {s} : conn'[t] = conn[t]

\* The close handler touches no other session.
C21_OthersKept(s) ==
  (conn[s] = "open" /\ conn'[s] = "closed") =>
     /\ sseClients' \ {s} = sseClients \ {s}
     /\ \A t \in Sessions \ {s} : conn'[t] = conn[t] /\ received'[t] = received[t]

\* C21: the Set of subscribers holds exactly the sessions that have subscribed
\* and have neither disconnected nor failed a write: a session enters it when it
\* subscribes, leaves it when it disconnects or when a write to it fails, and
\* never otherwise; the close handler of a session that is no longer in the Set
\* leaves the Set unchanged, and a close handler affects no other session.
C21_SubscriberSet ==
  /\ []C21_MembersOpen
  /\ [][\A s \in Sessions : /\ C21_Membership(s)
                            /\ C21_RemovedAgain(s)
                            /\ C21_OthersKept(s)]_vars

\* C21 witness: a failed write removed s1 from the Set while its connection is
\* still open, so that its close handler will find it already removed; s2 has
\* subscribed, received the event and disconnected.
C21_Witness ==
  /\ conn["s1"] = "open" /\ "s1" \notin sseClients
  /\ received["s1"] = <<PingEvent>>
  /\ conn["s2"] = "closed" /\ "s2" \notin sseClients
  /\ Len(received["s2"]) = 2 /\ published # <<>>

(***************************************************************************)
(* The candidate list of one advisory request (checked under SpecAdvice).  *)
(***************************************************************************)
\* The configured default, then the fallbacks that are not the default.
C22_Candidates ==
  <<config.GEMINI_MODEL>> \o SelectSeq(FallbackModels, LAMBDA m : m # config.GEMINI_MODEL)

\* The candidates attempted so far are the first ones of the list, in order.
C22_InOrder ==
  /\ Len(req.tried) <= Len(C22_Candidates)
  /\ \A k \in 1..Len(req.tried) : req.tried[k] = C22_Candidates[k]
  /\ \A j, k \in 1..Len(req.tried) : req.tried[j] = req.tried[k] => j = k
  /\ req.pc = "await" => req.tried # <<>>

\* A step attempts the next candidate only while the chain is running, and a
\* step that ends the chain attempts none.
C22_Attempt ==
  /\ (req'.tried # req.tried /\ req'.tried # <<>>) =>
        /\ req.pc \in {"profile", "await"}
        /\ req'.pc = "await"
        /\ Len(req.tried) < Len(C22_Candidates)
        /\ req'.tried = Append(req.tried, C22_Candidates[Len(req.tried) + 1])
  /\ (req.pc = "await" /\ req'.pc = "done") => req'.tried = req.tried
  /\ req.pc = "done" => req'.tried \in {req.tried, <<>>}

\* C22: within one advisory request the candidates are the configured default
\* followed by the fallbacks without duplicates; they are attempted in that
\* order, each at most once, and none is attempted once the chain has accepted
\* an answer, aborted or returned the blocked response.
C22_CandidateOrder == []C22_InOrder /\ [][C22_Attempt]_vars

\* C22 witness: the default is also the last fallback, and the third and last
\* candidate of the request returned the answer that was accepted.
C22_Witness ==
  /\ config.GEMINI_MODEL = FallbackModels[3]
  /\ req.pc = "done" /\ req.resp.usedGemini
  /\ req.tried = <<FallbackModels[3], FallbackModels[1], FallbackModels[2]>>

(***************************************************************************)
(* The end of an advisory request (checked under SpecRequests).            *)
(***************************************************************************)
\* The three exits of the fallback chain.
C23_Accepted ==
  /\ req.resp.status = 200 /\ req.resp.ok /\ req.resp.usedGemini
  /\ req.resp.text = req.last.text
C23_Aborted ==
  /\ req.resp.status = 502 /\ ~req.resp.ok
  /\ req.resp.error = MessageOf(req.last) /\ req.resp.text = <<>>
C23_Exhausted ==
  /\ Exhausted /\ FromRuleEngine(req.resp)

\* C23 as stated: a request is always at a step that a callback or a provider
\* return will take further, or it has ended; it attempts no more candidates
\* than the list holds; when it has ended it has sent a response; and when its
\* fallback chain ran, the chain ended in exactly one of Accepted, Aborted and
\* Exhausted, Exhausted with the rule engine's answer and Aborted with the
\* provider's error.
C23_OneResponseOneExit ==
  /\ req.pc \in {"idle", "latest", "recent", "profile", "await", "done"}
  /\ Len(req.tried) <= Len(modelsToTry)
  /\ req.pc = "done" => req.resp # NoAdvResp
  /\ (req.pc = "done" /\ req.tried # <<>>) =>
        /\ C23_Accepted \/ C23_Aborted \/ C23_Exhausted
        /\ ~(C23_Accepted /\ C23_Aborted)
        /\ ~(C23_Accepted /\ C23_Exhausted)
        /\ ~(C23_Aborted /\ C23_Exhausted)

(***************************************************************************)
(* The trend labels of /chat (checked under SpecChatTrend).                *)
(***************************************************************************)
\* The series of field f in the recentData of the request.
C24_Series(f) == [k \in 1..Len(req.recent) |-> req.recent[k][f]]

C24_Labels ==
  {"insufficient data", "steady", "slightly rising", "slightly falling",
   "rising", "falling"}

\* C24 as stated: the trend label /chat computes for each series of its
\* recentData is the label deriveTrend gives for that series, one of the six
\* labels, also for series shorter than 4 and for series with entries that
\* are not finite numbers.
C24_ChatTrendIsTrendAnalyzer ==
  (req.mode = "chat" /\ req.question # "" /\ req.pc \in {"profile", "await", "done"}) =>
     \A f \in {"pm25", "voc", "c2h5oh", "co", "predicted_iaq"} :
        /\ req.trendSummary[f] = deriveTrend(C24_Series(f))
        /\ req.trendSummary[f] \in C24_Labels

(***************************************************************************)
(* The context of GET /lifestyle-advice while readings are ingested        *)
(* (checked under SpecSnapshot).                                           *)
(***************************************************************************)
\* The latest reading of the request is the newest of its recent window.
C25_OneInstant ==
  (req.mode = "adviceGet" /\ req.pc \in {"profile", "await", "done"} /\ req.recent # <<>>) =>
     req.latest = req.recent[1]

\* While provider attempts are in flight the context stays as it was built.
C25_Kept ==
  (req.pc = "await" /\ req'.pc \in {"await", "done"}) =>
     /\ req'.latest = req.latest /\ req'.recent = req.recent
     /\ req'.categories = req.categories /\ req'.prompt = req.prompt

\* C25 as stated: the context of a request is a snapshot of the readings at
\* one instant: in GET /lifestyle-advice the latest reading used is the newest
\* reading of the recent window used, also when readings are ingested during
\* the request, and readings ingested while provider attempts are in flight
\* do not change the context used for the answer.
C25_ContextIsSnapshot == []C25_OneInstant /\ [][C25_Kept]_vars

(***************************************************************************)
(* A provider call that never returns (checked under SpecHung).            *)
(***************************************************************************)
\* An ingestion that was accepted is stored, broadcast and answered, whatever
\* the advisory request is waiting for.
C26_IngestionProceeds ==
  (ingest["i1"].pc \in {"queued", "completed"}) ~> (ingest["i1"].pc = "done")

\* The request is waiting for the answer to its n-th attempt.
C26_Pending(n) == req.pc = "await" /\ Len(req.tried) = n

\* No attempt is waited for forever.
C26_AttemptEnds ==
  \A n \in 1..(Len(FallbackModels) + 1) : C26_Pending(n) ~> ~C26_Pending(n)

\* C26 as stated: while a provider call is pending, ingestions are still
\* stored, broadcast and answered, and the advisory request does not wait
\* forever on one attempt, because each attempt ends after a timeout.
C26_HungCallDoesNotBlock == C26_IngestionProceeds /\ C26_AttemptEnds

(***************************************************************************)
(* What the provider is sent of the profile (checked under SpecPrivacy).   *)
(***************************************************************************)
\* The rows the profiles table may hold.
C27_Rows ==
  { [owner_name |-> b.owner_name, members |-> b.members,
     preferences |-> b.preferences, updated_ts |-> t] :
    b \in PrivacyBodies, t \in 1..MaxClock }

\* The owner's name and each member's name, relation, age and conditions.
C27_Named(profile) ==
  [owner_name |-> profile.owner_name,
   members |-> [k \in 1..Len(profile.members) |->
                  [name |-> profile.members[k].name,
                   relation |-> profile.members[k].relation,
                   age |-> profile.members[k].age,
                   conditions |-> profile.members[k].conditions]]]

\* The same, with whether notifications are switched off.
C27_Summarised(profile) ==
  [named |-> C27_Named(profile),
   notificationsOff |-> (profile.preferences.receiveNotifications = FALSE)]

\* The prompt the request would have built had it read profile p.
C27_PromptFor(p) ==
  IF req.mode = "chat" THEN chatPrompt(req.question, req.latest, req.recent, p)
  ELSE advicePrompt(req.latest, req.recent, req.categories, p)

\* A provider request has been built.
C27_Sent == req.prompt # <<>>

\* The summary in the prompt holds the owner, the members by relation, name,
\* age and conditions, and the notifications marker: no other field of a
\* member and no other part.
C27_NoRawProfile ==
  LET summary == req.prompt[1].profileSummary IN
  \A k \in 1..Len(summary) :
     /\ summary[k][1] \in {"Household owner", "Members", "Notifications"}
     /\ summary[k][1] = "Members" =>
          \A j \in 1..Len(summary[k][2]) :
             DOMAIN summary[k][2][j] = {"relation", "name", "age", "conditions"}

C28_Sends == req'.tried # req.tried /\ req'.tried # <<>>

\* A profile is stored and a latest version of it has sharing switched on.
C28_LatestShares ==
  \E p \in getProfile(FALSE) : p # NoProfile /\ p.preferences.shareWithGemini

\* C28 as stated: a request is sent to the provider only at a moment when the
\* latest stored profile has sharing switched on: once the profile is deleted,
\* or saved with sharing off, no later candidate of a running chain is tried.
C28_NoRequestAfterOptOut == [][C28_Sends => C28_LatestShares]_vars

(***************************************************************************)
(* The predicted_iaq a viewer is shown (checked under SpecDisplay).        *)
(***************************************************************************)
\* The value shown for the stored reading with this id.
C29_Shown(id) == Num(RowOf(id).predicted_iaq.v - DisplayOffset)

\* Every answer and event presents the stored value minus the offset.
C29_Channels ==
  /\ \A s \in Sessions : \A k \in 1..Len(received[s]) :
        received[s][k].event = "message" =>
           received[s][k].data.predicted_iaq = C29_Shown(received[s][k].data.id)
  /\ (rd.pc = "done" /\ rd.kind \in {"latest", "history"} /\ rd.resp.ok) =>
        \A k \in 1..Len(rd.resp.data) :
           rd.resp.data[k].predicted_iaq = C29_Shown(rd.resp.data[k].id)
  /\ (rd.pc = "done" /\ rd.kind = "export" /\ rd.resp.ok) =>
        \A k \in 1..Len(rd.resp.data) :
           rd.resp.data[k].predicted_iaq
              = [text |-> "decimal", of |-> RowOf(rd.resp.data[k].id).predicted_iaq.v]

\* A row is stored with the value the device sent, and no step changes a
\* stored row.
C29_StoreKeepsRaw ==
  /\ \A k \in 1..Len(readings) : readings'[k] = readings[k]
  /\ \A i \in Ingests :
        (ingest[i].pc = "queued" /\ ingest'[i].pc = "completed"
           /\ Len(readings') = Len(readings) + 1) =>
           readings'[Len(readings')].predicted_iaq = predToStore(ingest[i].body)

C30_SameReading ==
  /\ req.pc = "done" /\ FromRuleEngine(req.resp) /\ req.latest # Null
  /\ rd.pc = "done" /\ rd.kind = "emergency" /\ rd.latest # Null
  /\ rd.latest.id = req.latest.id

\* C30 as stated: for the same latest stored reading, the rule engine's answer
\* holds the emergency sentence exactly when /emergency-check reports an
\* emergency, in GET /lifestyle-advice and in POST /chat and POST
\* /lifestyle-advice with the reading the viewer forwards.
C30_TierConsistent ==
  C30_SameReading =>
     (rd.resp.emergency <=> InSeq(PrimaryEmergency, req.resp.text))

\* The same for GET /lifestyle-advice alone, which reads the store itself.
C30_TierConsistentOnGet ==
  (C30_SameReading /\ req.mode = "adviceGet") =>
     (rd.resp.emergency <=> InSeq(PrimaryEmergency, req.resp.text))
====
